---------------------------- MODULE Spec2Model ----------------------------
(***************************************************************************)
(* A model of vali, a small struct validator (vali.go, check.go).          *)
(*                                                                         *)
(* Text.  A Go string is modelled as a sequence of symbols.  The           *)
(* separators "," ":" "=" and the blank " " are symbols of their own; any  *)
(* other symbol stands for a run of characters that holds no separator and *)
(* no blank ("required", "min", "5").  strings.Split, strings.TrimSpace,   *)
(* strings.Contains and strings.Join are computed on these sequences.      *)
(*                                                                         *)
(* Values.  A reflect.Value is a record with a kind: String, Int, Bool,    *)
(* Ptr (nil or pointing to a value), Struct (a sequence of fields) and     *)
(* Invalid (the zero reflect.Value that Elem() of a nil pointer returns).  *)
(***************************************************************************)
EXTENDS Integers, Sequences, FiniteSets, TLC

(***************************************************************************)
(* strings                                                                 *)
(***************************************************************************)
Contains(s, sep) == \E i \in 1..Len(s) : s[i] = sep

RECURSIVE Split(_, _)
Split(s, sep) ==
    IF ~Contains(s, sep) THEN <<s>>
    ELSE LET i == CHOOSE k \in 1..Len(s) :
                     s[k] = sep /\ \A j \in 1..(k - 1) : s[j] # sep
         IN  <<SubSeq(s, 1, i - 1)>> \o Split(SubSeq(s, i + 1, Len(s)), sep)

RECURSIVE TrimSpace(_)
TrimSpace(s) ==
    IF s # <<>> /\ Head(s) = " " THEN TrimSpace(Tail(s))
    ELSE IF s # <<>> /\ s[Len(s)] = " " THEN TrimSpace(SubSeq(s, 1, Len(s) - 1))
    ELSE s

RECURSIVE Join(_, _)
Join(elems, sep) ==
    IF elems = <<>> THEN <<>>
    ELSE IF Len(elems) = 1 THEN elems[1]
    ELSE elems[1] \o <<sep>> \o Join(Tail(elems), sep)

(***************************************************************************)
(* strconv: the numerals of the model and their values.  Any other text    *)
(* is a syntax error for ParseInt and Atoi.                                *)
(***************************************************************************)
NumVal == ("0" :> 0) @@ ("3" :> 3) @@ ("5" :> 5) @@ ("-1" :> (0 - 1))

IsNumeral(arg) == Len(arg) = 1 /\ arg[1] \in DOMAIN NumVal

Atoi(arg) == NumVal[arg[1]]

(***************************************************************************)
(* reflect                                                                 *)
(***************************************************************************)
Invalid == [kind |-> "Invalid"]

StrLen == ("" :> 0) @@ ("foo" :> 3) @@ ("uuid" :> 36)

StrV(s) == [kind |-> "String", s |-> s]

IntV(n) == [kind |-> "Int", n |-> n]

BoolV(b) == [kind |-> "Bool", b |-> b]

UintV(n) == [kind |-> "Uint", n |-> n]

\* a slice, map or channel that holds n elements, and the nil one
SliceV(n) == [kind |-> "Slice", nil |-> FALSE, len |-> n]

NilSlice == [kind |-> "Slice", nil |-> TRUE, len |-> 0]

NilPtr == [kind |-> "Ptr", nil |-> TRUE]

Ptr(x) == [kind |-> "Ptr", nil |-> FALSE, elem |-> x]

Field(name, exported, tag, val) ==
    [name |-> name, exported |-> exported, tag |-> tag, val |-> val]

Struct(fields) == [kind |-> "Struct", fields |-> fields]

\* for val.Kind() == reflect.Ptr { val = val.Elem() }
DerefOne(val) ==
    IF val.kind = "Ptr" THEN (IF val.nil THEN Invalid ELSE val.elem) ELSE val

RECURSIVE Deref(_)
Deref(val) ==
    IF val.kind = "Ptr"
    THEN (IF val.nil THEN Invalid ELSE Deref(val.elem))
    ELSE val

\* v.IsZero() with the zero reflect.Value taken for a value that is set
isZeroValid(v) ==
    CASE v.kind = "Invalid" -> FALSE
      [] v.kind = "String"  -> StrLen[v.s] = 0
      [] v.kind = "Int"     -> v.n = 0
      [] v.kind = "Uint"    -> v.n = 0
      [] v.kind = "Bool"    -> ~v.b
      [] v.kind = "Ptr"     -> v.nil
      [] v.kind = "Slice"   -> v.nil
      [] v.kind = "Struct"  -> FALSE

\* v.IsZero(), which panics on the zero reflect.Value; isZero recovers
\* the panic and answers true.
RECURSIVE isZero(_)
isZero(v) ==
    CASE v.kind = "Invalid" -> TRUE
      [] v.kind = "String"  -> StrLen[v.s] = 0
      [] v.kind = "Int"     -> v.n = 0
      [] v.kind = "Uint"    -> v.n = 0
      [] v.kind = "Bool"    -> ~v.b
      [] v.kind = "Ptr"     -> v.nil
      [] v.kind = "Slice"   -> v.nil
      [] v.kind = "Struct"  ->
            \A i \in 1..Len(v.fields) : isZero(v.fields[i].val)

(***************************************************************************)
(* Errors.  An error is a record; NoErr is the nil error.  A check's own   *)
(* message is kept structured: what fmt would print is a function of it.   *)
(***************************************************************************)
NoErr == [kind |-> "nil"]

ErrRequired == [kind |-> "ErrRequired"]

\* fmt.Errorf("%s %w: %w", name, ErrCheckFailed, err)
CheckFailed(name, err) ==
    [kind |-> "ErrCheckFailed", name |-> name, inner |-> err, scope |-> <<>>]

\* fmt.Errorf("%w %s", ErrInvalidChecker, tag), and with ": %w" of the
\* maker's error
InvalidChecker(tag, err) ==
    [kind |-> "ErrInvalidChecker", name |-> tag, inner |-> err, scope |-> <<>>]

\* fmt.Errorf("%s: %w, will not validate", scope.name, ErrPrivateField)
PrivateField(scope) ==
    [kind |-> "ErrPrivateField", name |-> <<>>, inner |-> NoErr, scope |-> scope]

\* fmt.Errorf("%s: %w", strings.Join(scope, "."), err)
Scoped(scope, err) == [err EXCEPT !.scope = scope]

(***************************************************************************)
(* Checkers.  A Checker value is a record that names the function and the  *)
(* closure state it captured.                                              *)
(***************************************************************************)
required == [fn |-> "required"]

UuidRx == <<"^uuid$">>

FooRx == <<"^foo$">>

BadRx == <<"[A-">>

RegexChecker(arg) == [fn |-> "Regex", arg |-> arg]

uuid == RegexChecker(UuidRx)

SizeChecker(arg, exp) == [fn |-> "sizeCmp", arg |-> arg, exp |-> exp]

\* a checker supplied by the caller: "fail" rejects every value, "pass"
\* accepts every value
Custom(id) == [fn |-> "custom", id |-> id]

\* the checker a caller-supplied maker returns: it remembers the maker
\* that built it and the argument; the one built by "m2" rejects every
\* value, any other accepts every value
Made(maker, arg) == [fn |-> "made", by |-> maker, arg |-> arg]

expLess == 0 - 1

expEq == 0

expMore == 1

expNotEq == 2

expLabel ==
    (expLess :> "more than") @@ (expMore :> "less than") @@
    (expEq :> "not equal to") @@ (expNotEq :> "equal to")

Compare(a, b) == IF a < b THEN 0 - 1 ELSE IF a > b THEN 1 ELSE 0

cmp2(a, b, exp) ==
    LET act == Compare(a, b)
    IN  CASE exp = expLess -> act # expLess /\ act # 0
          [] exp = expMore -> act # expMore /\ act # 0
          [] exp = expEq   -> act # expEq
          [] OTHER         -> act = expEq

\* fmt.Sprint(v.Interface()) as far as the patterns of the model can tell
Sprint(v) ==
    CASE v.kind = "String" -> v.s
      [] v.kind = "Int"    -> "number"
      [] v.kind = "Bool"   -> "bool"
      [] OTHER             -> "other"

MatchString(rx, act) ==
    \/ rx = UuidRx /\ act = "uuid"
    \/ rx = FooRx /\ act = "foo"

Panic == [kind |-> "panic"]

\* the length comparison with an absent value compared as length 0
sizeCmpLenZero(v, x, exp) ==
    CASE v.kind \in {"Ptr", "Invalid"} ->
            (IF cmp2(0, x, exp)
             THEN [kind |-> "len", y |-> 0, label |-> expLabel[exp], x |-> x]
             ELSE NoErr)
      [] v.kind = "String" ->
            (IF cmp2(StrLen[v.s], x, exp)
             THEN [kind |-> "len", y |-> StrLen[v.s], label |-> expLabel[exp], x |-> x]
             ELSE NoErr)
      [] OTHER -> [kind |-> "unsupported kind", of |-> v.kind]

RECURSIVE sizeCmpLen(_, _, _)
sizeCmpLen(v, x, exp) ==
    CASE v.kind = "Ptr" ->
            (IF v.nil THEN NoErr ELSE sizeCmpLen(v.elem, x, exp))
      [] v.kind = "Invalid" -> NoErr
      [] v.kind = "String" ->
            (IF cmp2(StrLen[v.s], x, exp)
             THEN [kind |-> "len", y |-> StrLen[v.s], label |-> expLabel[exp], x |-> x]
             ELSE NoErr)
      [] v.kind = "Slice" ->
            (IF v.nil THEN NoErr
             ELSE IF cmp2(v.len, x, exp)
             THEN [kind |-> "len", y |-> v.len, label |-> expLabel[exp], x |-> x]
             ELSE NoErr)
      [] OTHER -> [kind |-> "unsupported kind", of |-> v.kind]

\* the length comparison with the nil slice compared as length 0
sizeCmpCheckNilLen(arg, exp, v) ==
    IF v.kind \in {"Int", "Uint"}
    THEN IF ~IsNumeral(arg) THEN [kind |-> "strconv.ParseInt", arg |-> arg]
         ELSE IF cmp2(v.n, Atoi(arg), exp)
              THEN [kind |-> "is", y |-> v.n, label |-> expLabel[exp], x |-> Atoi(arg)]
              ELSE NoErr
    ELSE IF ~IsNumeral(arg) THEN [kind |-> "strconv.Atoi", arg |-> arg]
         ELSE sizeCmpLen(IF v.kind = "Slice" THEN SliceV(v.len) ELSE v,
                         Atoi(arg), exp)

sizeCmpCheck(arg, exp, v) ==
    IF v.kind = "Int"
    THEN IF ~IsNumeral(arg) THEN [kind |-> "strconv.ParseInt", arg |-> arg]
         ELSE IF cmp2(v.n, Atoi(arg), exp)
              THEN [kind |-> "is", y |-> v.n, label |-> expLabel[exp], x |-> Atoi(arg)]
              ELSE NoErr
    ELSE IF v.kind = "Uint"
    THEN IF ~IsNumeral(arg) \/ Atoi(arg) < 0
         THEN [kind |-> "strconv.ParseUint", arg |-> arg]
         ELSE IF cmp2(v.n, Atoi(arg), exp)
              THEN [kind |-> "is", y |-> v.n, label |-> expLabel[exp], x |-> Atoi(arg)]
              ELSE NoErr
    ELSE IF ~IsNumeral(arg) THEN [kind |-> "strconv.Atoi", arg |-> arg]
         ELSE sizeCmpLen(v, Atoi(arg), exp)

\* required, which fails on nil references only
requiredNonNil(v) == IF v.kind = "Invalid" THEN ErrRequired ELSE NoErr

\* func required(v reflect.Value) error
requiredCheck(v) == IF isZero(v) THEN ErrRequired ELSE NoErr

\* ck(val): the error the checker returns on the value
Apply(ck, v) ==
    CASE ck.fn = "required" -> requiredCheck(v)
      [] ck.fn = "Regex" ->
            (IF v.kind = "Invalid" THEN Panic
             ELSE IF MatchString(ck.arg, Sprint(v)) THEN NoErr
             ELSE [kind |-> "does not match", act |-> Sprint(v), arg |-> ck.arg])
      [] ck.fn = "sizeCmp" -> sizeCmpCheck(ck.arg, ck.exp, v)
      [] ck.fn = "custom" ->
            (IF ck.id = "fail" THEN [kind |-> "custom", id |-> ck.id] ELSE NoErr)
      [] ck.fn = "made" ->
            (IF ck.by = "m2" THEN [kind |-> "made", by |-> ck.by, arg |-> ck.arg]
             ELSE NoErr)

(***************************************************************************)
(* Checksums.  The text of a value (what fmt.Sprint or Sprintf("%d")       *)
(* yields) is a sequence of one-character strings; Byte gives the code of  *)
(* a character, which the checks compare with '0' and '9'.                 *)
(***************************************************************************)
Byte ==
    ("0" :> 48) @@ ("1" :> 49) @@ ("2" :> 50) @@ ("3" :> 51) @@ ("4" :> 52) @@
    ("5" :> 53) @@ ("6" :> 54) @@ ("7" :> 55) @@ ("8" :> 56) @@ ("9" :> 57) @@
    (" " :> 32) @@ ("-" :> 45) @@ ("X" :> 88) @@ ("Y" :> 89) @@
    ("a" :> 97) @@ ("x" :> 120)

\* s[i] < '0' || s[i] > '9'
NotDigit(c) == Byte[c] < Byte["0"] \/ Byte[c] > Byte["9"]

\* strings.ReplaceAll(s, old, "") for a one-character old
ReplaceAll(s, old) == SelectSeq(s, LAMBDA c : c # old)

\* the digit as the sum takes it, with the doubled digit left as it is
luhnDigitNoReduce(digit, double) == IF double THEN digit * 2 ELSE digit

\* if double { digit *= 2; if digit > 9 { digit -= 9 } }
luhnDigit(digit, double) ==
    IF double
    THEN (IF digit * 2 > 9 THEN digit * 2 - 9 ELSE digit * 2)
    ELSE digit

\* for i := len(s) - 1; i >= 0; i-- (i counts from 1 here)
RECURSIVE luhnLoop(_, _, _, _)
luhnLoop(s, i, sum, double) ==
    IF i < 1
    THEN (IF sum % 10 # 0
          THEN [kind |-> "is not valid according to the Luhn algorithm", s |-> s]
          ELSE NoErr)
    ELSE IF NotDigit(s[i])
    THEN [kind |-> "contains non-digit character", s |-> s, c |-> s[i]]
    ELSE luhnLoop(s, i - 1, sum + luhnDigit(Byte[s[i]] - Byte["0"], double),
                  ~double)

luhnClean(s) ==
    IF s = <<>> THEN [kind |-> "is not a valid input for Luhn validation", s |-> s]
    ELSE luhnLoop(s, Len(s), 0, FALSE)

\* func luhn(v reflect.Value) error, on the text s of v
luhn(s) == luhnClean(ReplaceAll(ReplaceAll(s, " "), "-"))

\* npiRx.MatchString(s), npiRx being ^\d{10}$
MatchNpiRx(s) ==
    /\ Len(s) = 10
    /\ \A i \in 1..Len(s) : Byte[s[i]] >= Byte["0"] /\ Byte[s[i]] <= Byte["9"]

\* npi with the Luhn sum taken over the text alone
npiNoPrefix(s) ==
    IF ~MatchNpiRx(s) THEN [kind |-> "is not a valid NPI", s |-> s]
    ELSE luhn(s)

\* func npi(v reflect.Value) error, on the text s of v
npi(s) ==
    IF ~MatchNpiRx(s) THEN [kind |-> "is not a valid NPI", s |-> s]
    ELSE luhn(<<"8", "0", "8", "4", "0">> \o s)

\* the last character of an ISBN-10 with the capital X alone worth 10
isbn10LastCapital(s, sum, c) ==
    IF c = "X"
    THEN (IF (sum + 10) % 11 # 0
          THEN [kind |-> "is not a valid ISBN-10 (checksum failed)", s |-> s]
          ELSE NoErr)
    ELSE IF ~NotDigit(c)
    THEN (IF (sum + (Byte[c] - Byte["0"])) % 11 # 0
          THEN [kind |-> "is not a valid ISBN-10 (checksum failed)", s |-> s]
          ELSE NoErr)
    ELSE [kind |-> "invalid character in ISBN-10", c |-> c]

\* switch v := s[9]; {...}, then the test of the sum
isbn10Last(s, sum, c) ==
    IF c = "X" \/ c = "x"
    THEN (IF (sum + 10) % 11 # 0
          THEN [kind |-> "is not a valid ISBN-10 (checksum failed)", s |-> s]
          ELSE NoErr)
    ELSE IF Byte[c] >= Byte["0"] /\ Byte[c] <= Byte["9"]
    THEN (IF (sum + (Byte[c] - Byte["0"])) % 11 # 0
          THEN [kind |-> "is not a valid ISBN-10 (checksum failed)", s |-> s]
          ELSE NoErr)
    ELSE [kind |-> "invalid character in ISBN-10", c |-> c]

\* for i := range 9 (s[i] of the code is s[i + 1] here)
RECURSIVE isbn10Loop(_, _, _)
isbn10Loop(s, i, sum) ==
    IF i >= 9 THEN isbn10Last(s, sum, s[10])
    ELSE IF NotDigit(s[i + 1])
    THEN [kind |-> "invalid character in ISBN-10", c |-> s[i + 1]]
    ELSE isbn10Loop(s, i + 1, sum + (Byte[s[i + 1]] - Byte["0"]) * (10 - i))

validateISBN10(s) == isbn10Loop(s, 0, 0)

\* the last character of an ISBN-13 against 10 less the sum modulo 10
isbn13LastNoWrap(s, sum) ==
    IF NotDigit(s[13])
    THEN [kind |-> "invalid character in ISBN-13", c |-> s[13]]
    ELSE IF Byte[s[13]] - Byte["0"] # 10 - (sum % 10)
    THEN [kind |-> "is not a valid ISBN-13 (checksum failed)", s |-> s]
    ELSE NoErr

isbn13Last(s, sum) ==
    IF NotDigit(s[13])
    THEN [kind |-> "invalid character in ISBN-13", c |-> s[13]]
    ELSE IF Byte[s[13]] - Byte["0"] # (10 - (sum % 10)) % 10
    THEN [kind |-> "is not a valid ISBN-13 (checksum failed)", s |-> s]
    ELSE NoErr

\* for i := range 12
RECURSIVE isbn13Loop(_, _, _)
isbn13Loop(s, i, sum) ==
    IF i >= 12 THEN isbn13Last(s, sum)
    ELSE IF NotDigit(s[i + 1])
    THEN [kind |-> "invalid character in ISBN-13", c |-> s[i + 1]]
    ELSE isbn13Loop(s, i + 1,
                    sum + (IF i % 2 = 0 THEN Byte[s[i + 1]] - Byte["0"]
                           ELSE 3 * (Byte[s[i + 1]] - Byte["0"])))

validateISBN13(s) == isbn13Loop(s, 0, 0)

isbnClean(s) ==
    CASE Len(s) = 10 -> validateISBN10(s)
      [] Len(s) = 13 -> validateISBN13(s)
      [] OTHER -> [kind |-> "is not a valid ISBN (must be 10 or 13 digits)", s |-> s]

\* func isbn(v reflect.Value) error, on the text s of v
isbn(s) == isbnClean(ReplaceAll(s, "-"))

(***************************************************************************)
(* Checker makers.  cm(arg) returns a checker or an error.                 *)
(***************************************************************************)
Regex(arg) ==
    IF arg = BadRx
    THEN [c |-> [fn |-> "nil"], err |-> [kind |-> "error parsing regexp", arg |-> arg]]
    ELSE [c |-> RegexChecker(arg), err |-> NoErr]

\* the maker with the argument parsed when the checker is made
sizeCmpStrict(arg, exp) ==
    IF IsNumeral(arg) THEN [c |-> SizeChecker(arg, exp), err |-> NoErr]
    ELSE [c |-> [fn |-> "nil"], err |-> [kind |-> "strconv.Atoi", arg |-> arg]]

sizeCmp(arg, exp) == [c |-> SizeChecker(arg, exp), err |-> NoErr]

Make(cm, arg) ==
    CASE cm = "Regex" -> Regex(arg)
      [] cm = "Eq"    -> sizeCmp(arg, expEq)
      [] cm = "Ne"    -> sizeCmp(arg, expNotEq)
      [] cm = "Min"   -> sizeCmp(arg, expMore)
      [] cm = "Max"   -> sizeCmp(arg, expLess)
      [] OTHER        -> [c |-> Made(cm, arg), err |-> NoErr]

(***************************************************************************)
(* The Validator.  v is the record of its fields: checkers and             *)
(* checkerMakers map a text to a checker or a maker (a text outside the    *)
(* DOMAIN maps to nil), CheckSep and CheckArgSep are symbols,              *)
(* DontSkipZeroChecks is a set of texts, ErrorOnPrivate a flag.            *)
(* Of the checkers that New registers the model keeps required and uuid,   *)
(* of the makers regex, eq, ne, min and max.                               *)
(*                                                                         *)
(* A call also yields a log, which is not state of the program: ran lists  *)
(* the checker invocations ck(val) in order, made the maker invocations    *)
(* cm(arg), bound the checkers that parse appended to cx, each with the    *)
(* segment it stands for.                                                  *)
(***************************************************************************)
DefaultDontSkipZero == {<<"required">>, <<"eq">>, <<"ne">>, <<"min">>, <<"max">>}

New ==
    [checkers |-> (<<"required">> :> required) @@ (<<"uuid">> :> uuid),
     checkerMakers |-> (<<"regex">> :> "Regex") @@ (<<"eq">> :> "Eq") @@
                       (<<"ne">> :> "Ne") @@ (<<"min">> :> "Min") @@
                       (<<"max">> :> "Max"),
     CheckSep |-> ",", CheckArgSep |-> ":",
     DontSkipZeroChecks |-> DefaultDontSkipZero,
     ErrorOnPrivate |-> TRUE]

EmptyLog == [ran |-> <<>>, made |-> <<>>, bound |-> <<>>]

Nil == [fn |-> "nil"]

\* v.checkers[name] = fn
RegisterCheckerFirstWins(v, name, fn) ==
    IF name \in DOMAIN v.checkers THEN v
    ELSE [v EXCEPT !.checkers = (name :> fn) @@ @]

RegisterChecker(v, name, fn) ==
    [v EXCEPT !.checkers = (name :> fn) @@ @]

\* v.checkerMakers[name] = fn
RegisterCheckerMaker(v, name, fn) ==
    [v EXCEPT !.checkerMakers = (name :> fn) @@ @]

\* parse, the body of the loop for one trimmed, non-empty segment that
\* names no registered checker and holds the argument separator: tagz are
\* its parts.  (Operators take the value of a call as a parameter where
\* the code binds it to a local variable.)
parseFail(v, tag, made, e) ==
    [err |-> InvalidChecker(tag, e), v |-> v, made |-> made, c |-> Nil,
     name |-> <<>>, tag |-> tag]

\* the caching of a built checker under the name of its maker
parseMadeByName(v, tag, made, name, m) ==
    IF m.err # NoErr THEN parseFail(v, tag, made, m.err)
    ELSE [err |-> NoErr, v |-> RegisterChecker(v, name, m.c), made |-> made,
          c |-> m.c, name |-> name, tag |-> tag]

parseMade(v, tag, made, name, m) ==
    IF m.err # NoErr THEN parseFail(v, tag, made, m.err)
    ELSE [err |-> NoErr, v |-> RegisterChecker(v, tag, m.c), made |-> made,
          c |-> m.c, name |-> name, tag |-> tag]

\* the maker branch without the checks on the parts of the segment
parseMakerLoose(v, tag, made, tagz) ==
    IF tagz[1] \notin DOMAIN v.checkerMakers
    THEN parseFail(v, tag, made, NoErr)
    ELSE parseMade(v, tag,
                   Append(made, [maker |-> v.checkerMakers[tagz[1]], tag |-> tag]),
                   tagz[1], Make(v.checkerMakers[tagz[1]], tagz[2]))

parseMaker(v, tag, made, tagz) ==
    IF Len(tagz) # 2 \/ tagz[1] = <<>> \/ tagz[2] = <<>>
    THEN parseFail(v, tag, made, NoErr)
    ELSE IF tagz[1] \notin DOMAIN v.checkerMakers
    THEN parseFail(v, tag, made, NoErr)
    ELSE parseMade(v, tag,
                   Append(made, [maker |-> v.checkerMakers[tagz[1]], tag |-> tag]),
                   tagz[1], Make(v.checkerMakers[tagz[1]], tagz[2]))

\* parse, the body of the loop for one trimmed, non-empty segment.  The
\* answer says how the segment is bound: err, or the checker c under the
\* display name, with v and made as the segment leaves them.
\* the loop body with the maker tried before the registered checkers
parseSegmentMakerFirst(v, tag, made) ==
    IF Contains(tag, v.CheckArgSep)
    THEN parseMaker(v, tag, made, Split(tag, v.CheckArgSep))
    ELSE IF tag \in DOMAIN v.checkers
    THEN [err |-> NoErr, v |-> v, made |-> made, c |-> v.checkers[tag],
          name |-> tag, tag |-> tag]
    ELSE parseFail(v, tag, made, NoErr)

parseSegment(v, tag, made) ==
    IF tag \in DOMAIN v.checkers
    THEN [err |-> NoErr, v |-> v, made |-> made, c |-> v.checkers[tag],
          name |-> tag, tag |-> tag]
    ELSE IF Contains(tag, v.CheckArgSep)
    THEN parseMaker(v, tag, made, Split(tag, v.CheckArgSep))
    ELSE parseFail(v, tag, made, NoErr)

RECURSIVE parseLoop(_, _, _)
RECURSIVE parseTrimmed(_, _, _, _)
RECURSIVE parseBound(_, _, _, _)
\* for tag := range strings.SplitSeq(tag, v.CheckSep)
parseLoop(segs, i, acc) ==
    IF i > Len(segs) THEN acc
    ELSE parseTrimmed(segs, i, acc, TrimSpace(segs[i]))

\* the loop body without the skip of empty segments
parseTrimmedStrict(segs, i, acc, tag) ==
    parseBound(segs, i, acc, parseSegment(acc.v, tag, acc.made))

parseTrimmed(segs, i, acc, tag) ==
    IF tag = <<>> THEN parseLoop(segs, i + 1, acc)
    ELSE parseBound(segs, i, acc, parseSegment(acc.v, tag, acc.made))

parseBound(segs, i, acc, r) ==
    IF r.err # NoErr
    THEN [cx |-> <<>>, cxNames |-> <<>>, err |-> r.err, v |-> r.v,
          made |-> r.made, bound |-> acc.bound]
    ELSE parseLoop(segs, i + 1,
                   [cx |-> Append(acc.cx, r.c),
                    cxNames |-> Append(acc.cxNames, r.name),
                    err |-> NoErr, v |-> r.v, made |-> r.made,
                    bound |-> Append(acc.bound, [tag |-> r.tag, c |-> r.c])])

\* parse with the check list cut at the default separator
parseDefaultSep(v, tag, log) ==
    parseLoop(Split(tag, ","), 1,
              [cx |-> <<>>, cxNames |-> <<>>, err |-> NoErr, v |-> v,
               made |-> log.made, bound |-> log.bound])

\* parse undoing its registrations when a later segment is invalid
parseUndo(v, p) == IF p.err # NoErr THEN [p EXCEPT !.v = v] ELSE p

parseRollback(v, tag, log) ==
    parseUndo(v, parseLoop(Split(tag, v.CheckSep), 1,
                           [cx |-> <<>>, cxNames |-> <<>>, err |-> NoErr, v |-> v,
                            made |-> log.made, bound |-> log.bound]))

parse(v, tag, log) ==
    parseLoop(Split(tag, v.CheckSep), 1,
              [cx |-> <<>>, cxNames |-> <<>>, err |-> NoErr, v |-> v,
               made |-> log.made, bound |-> log.bound])

\* the name as parse stored it, with its argument
displayNameWhole(v, name) == name

\* the name a check is reported and skipped under
displayName(v, name) ==
    IF Contains(name, v.CheckArgSep) THEN Split(name, v.CheckArgSep)[1] ELSE name

\* the loop of validateScalar over the bound checks
RECURSIVE runChecks(_, _, _, _, _, _, _)
RECURSIVE runNamed(_, _, _, _, _, _, _, _)
RECURSIVE runChecked(_, _, _, _, _, _, _, _, _)
runChecks(v, val, cx, chkNames, i, scope, ran) ==
    IF i > Len(cx) THEN [err |-> NoErr, ran |-> ran]
    ELSE runNamed(v, val, cx, chkNames, i, scope, ran,
                  displayName(v, chkNames[i]))

\* the loop with the skip decided for the field as a whole, by the name
\* of its first check
runNamedPerField(v, val, cx, chkNames, i, scope, ran, name) ==
    IF isZero(val) /\ displayName(v, chkNames[1]) \notin v.DontSkipZeroChecks
    THEN runChecks(v, val, cx, chkNames, i + 1, scope, ran)
    ELSE runChecked(v, val, cx, chkNames, i, scope,
                    Append(ran, [scope |-> scope, name |-> name, ck |-> cx[i]]),
                    name, Apply(cx[i], val))

runNamed(v, val, cx, chkNames, i, scope, ran, name) ==
    IF isZero(val) /\ name \notin v.DontSkipZeroChecks
    THEN runChecks(v, val, cx, chkNames, i + 1, scope, ran)
    ELSE runChecked(v, val, cx, chkNames, i, scope,
                    Append(ran, [scope |-> scope, name |-> name, ck |-> cx[i]]),
                    name, Apply(cx[i], val))

runChecked(v, val, cx, chkNames, i, scope, ran, name, e) ==
    IF e = Panic THEN [err |-> Panic, ran |-> ran]
    ELSE IF e # NoErr THEN [err |-> CheckFailed(name, e), ran |-> ran]
    ELSE runChecks(v, val, cx, chkNames, i + 1, scope, ran)

scalarResult(scope, p, r) ==
    [err |-> IF r.err \in {NoErr, Panic} THEN r.err ELSE Scoped(scope, r.err),
     v |-> p.v, log |-> [ran |-> r.ran, made |-> p.made, bound |-> p.bound]]

\* validateScalar running each check as soon as its segment is bound: the
\* checks bound before an invalid segment run, and their failure is the
\* answer
scalarEager(scope, log, p, r) ==
    IF r.err = NoErr
    THEN [err |-> Scoped(scope, p.err), v |-> p.v,
          log |-> [log EXCEPT !.made = p.made, !.bound = p.bound]]
    ELSE scalarResult(scope, p, r)

scalarParsedEager(val, scope, log, p) ==
    IF p.err # NoErr
    THEN scalarEager(scope, log, p,
            runChecks(p.v, val,
                      [j \in 1..(Len(p.bound) - Len(log.bound)) |->
                          p.bound[Len(log.bound) + j].c],
                      [j \in 1..(Len(p.bound) - Len(log.bound)) |->
                          p.bound[Len(log.bound) + j].tag],
                      1, scope, log.ran))
    ELSE scalarResult(scope, p,
                      runChecks(p.v, val, p.cx, p.cxNames, 1, scope, log.ran))

scalarParsed(val, scope, log, p) ==
    IF p.err # NoErr
    THEN [err |-> Scoped(scope, p.err), v |-> p.v,
          log |-> [log EXCEPT !.made = p.made, !.bound = p.bound]]
    ELSE scalarResult(scope, p,
                      runChecks(p.v, val, p.cx, p.cxNames, 1, scope, log.ran))

validateScalar(v, val, tag, scope, log) ==
    scalarParsed(val, scope, log, parse(v, tag, log))

\* the answer of a loop without its early return: the error of the last
\* failing step is reported
lastErr(r, n) == IF n.err # NoErr THEN n ELSE [n EXCEPT !.err = r.err]

RECURSIVE validate(_, _, _, _, _)
RECURSIVE validateStruct(_, _, _)
RECURSIVE validateFields(_, _, _, _, _)
RECURSIVE validateField(_, _, _, _, _, _, _)
RECURSIVE validateNext(_, _, _, _)
validate(v, val, tag, scope, log) ==
    validateStruct(Deref(val), scope,
                   IF tag # <<>>
                   THEN validateScalar(v, Deref(val), tag, scope, log)
                   ELSE [err |-> NoErr, v |-> v, log |-> log])

\* validate with the fields walked also when the checks of the value
\* itself failed
validateStructNoStop(val, scope, s) ==
    IF val.kind # "Struct" THEN s
    ELSE lastErr(s, validateFields(s.v, val, 1, scope, s.log))

\* validate, after the checks of the value itself answered s
validateStruct(val, scope, s) ==
    IF s.err # NoErr THEN s
    ELSE IF val.kind # "Struct" THEN s
    ELSE validateFields(s.v, val, 1, scope, s.log)

\* the loop of validate over the fields, from field i on
validateFields(v, val, i, scope, log) ==
    IF i > Len(val.fields) THEN [err |-> NoErr, v |-> v, log |-> log]
    ELSE validateField(v, val, i, scope, log, val.fields[i],
                       TrimSpace(val.fields[i].tag))

\* the loop body with the scope of a field made of its own name alone
validateFieldLocalScope(v, val, i, scope, log, iType, tag) ==
    IF ~iType.exported
    THEN IF v.ErrorOnPrivate /\ tag # <<>>
         THEN [err |-> PrivateField(<<iType.name>>), v |-> v, log |-> log]
         ELSE validateFields(v, val, i + 1, scope, log)
    ELSE IF tag = <<>> /\ Deref(iType.val).kind # "Struct"
    THEN validateFields(v, val, i + 1, scope, log)
    ELSE validateNext(val, i, scope,
                      validate(v, Deref(iType.val), tag, <<iType.name>>, log))

\* the loop body with every non-public field skipped, whatever the policy
validateFieldSkipPrivate(v, val, i, scope, log, iType, tag) ==
    IF ~iType.exported
    THEN validateFields(v, val, i + 1, scope, log)
    ELSE IF tag = <<>> /\ Deref(iType.val).kind # "Struct"
    THEN validateFields(v, val, i + 1, scope, log)
    ELSE validateNext(val, i, scope,
                      validate(v, Deref(iType.val), tag, scope \o <<iType.name>>,
                               log))

\* the loop body walking into an untagged non-exported record field
validateFieldEnterPrivate(v, val, i, scope, log, iType, tag) ==
    IF ~iType.exported /\ v.ErrorOnPrivate /\ tag # <<>>
    THEN [err |-> PrivateField(scope \o <<iType.name>>), v |-> v, log |-> log]
    ELSE IF ~iType.exported /\ tag # <<>>
    THEN validateFields(v, val, i + 1, scope, log)
    ELSE IF tag = <<>> /\ Deref(iType.val).kind # "Struct"
    THEN validateFields(v, val, i + 1, scope, log)
    ELSE validateNext(val, i, scope,
                      validate(v, Deref(iType.val), tag, scope \o <<iType.name>>,
                               log))

validateField(v, val, i, scope, log, iType, tag) ==
    IF ~iType.exported
    THEN IF v.ErrorOnPrivate /\ tag # <<>>
         THEN [err |-> PrivateField(scope \o <<iType.name>>), v |-> v,
               log |-> log]
         ELSE validateFields(v, val, i + 1, scope, log)
    ELSE IF tag = <<>> /\ Deref(iType.val).kind # "Struct"
    THEN validateFields(v, val, i + 1, scope, log)
    ELSE validateNext(val, i, scope,
                      validate(v, Deref(iType.val), tag, scope \o <<iType.name>>,
                               log))

\* the loop without its early return: a failing field does not stop it
validateNextNoStop(val, i, scope, r) ==
    lastErr(r, validateFields(r.v, val, i + 1, scope, r.log))

\* the loop with a failing field validated a second time
validateNextRetry(val, i, scope, r) ==
    IF r.err # NoErr
    THEN validate(r.v, Deref(val.fields[i].val), TrimSpace(val.fields[i].tag),
                  scope \o <<val.fields[i].name>>, r.log)
    ELSE validateFields(r.v, val, i + 1, scope, r.log)

\* the loop after field i answered r
validateNext(val, i, scope, r) ==
    IF r.err # NoErr THEN r
    ELSE validateFields(r.v, val, i + 1, scope, r.log)

\* Validator.Validate(val, tags...)
Validate(v, val, tags) == validate(v, val, Join(tags, v.CheckSep), <<>>, EmptyLog)

(***************************************************************************)
(* Inputs.  The records, tags, names, checkers and makers the callers of   *)
(* the model use.  A world is one program using the library: the values    *)
(* it validates and the names it registers.                                *)
(***************************************************************************)
MaxOps == 2

MaxRegOps == 3

MaxDepth == 2

MaxCalls == 3

tRequired == <<"required">>

tUuid == <<"uuid">>

Arg(name, arg) == <<name, ":", arg>>

And(a, b) == a \o <<",">> \o b

Pub(name, tag, val) == Field(name, TRUE, tag, val)

Priv(name, tag, val) == Field(name, FALSE, tag, val)

RECURSIVE Wrap(_, _)
Wrap(x, n) == IF n = 0 THEN x ELSE Ptr(Wrap(x, n - 1))

Case(val, tags) == [val |-> val, tags |-> tags]

\* three fields that may each fail, flat and nested
OrderCases ==
    LET A(a) == Pub("A", tRequired, a)
        B(b) == Pub("B", And(tRequired, tUuid), b)
        C(c) == Pub("C", And(tUuid, tRequired), c)
        ab   == {StrV(""), StrV("foo")}
        abc  == {StrV(""), StrV("foo"), StrV("uuid")}
    IN  {Case(Struct(<<A(a), B(b), C(c)>>), <<>>) :
            a \in ab, b \in abc, c \in ab}
        \cup
        {Case(Struct(<<Pub("In", <<>>, Struct(<<A(a), B(b)>>)), C(c)>>), <<>>) :
            a \in ab, b \in abc, c \in ab}

\* scalars and nil references behind 0..MaxDepth layers of references, at
\* top level and in a field; records whose own check list sees a field
\* that holds a reference
RefsCases ==
    LET scalars == {StrV(""), StrV("foo"), IntV(0), IntV(3)}
        strs    == {StrV(""), StrV("foo")}
        F(x)    == Pub("F", tRequired, x)
        S(x)    == Pub("S", <<>>, x)
    IN  {Case(Wrap(x, n), <<tRequired>>) :
            x \in scalars \cup {BoolV(FALSE), BoolV(TRUE), NilPtr}, n \in 0..MaxDepth}
        \cup
        {Case(Wrap(x, n), <<tRequired, Arg("min", "3")>>) :
            x \in scalars, n \in 0..MaxDepth}
        \cup
        {Case(Wrap(Struct(<<F(Wrap(x, n))>>), m), <<>>) :
            x \in strs \cup {NilPtr}, n \in 0..MaxDepth, m \in 0..1}
        \cup
        {Case(Struct(<<S(Wrap(x, n))>>), <<tRequired>>) :
            x \in strs, n \in 0..MaxDepth}
        \cup
        {Case(Struct(<<Pub("In", tRequired, Wrap(Struct(<<F(Wrap(x, n))>>), m))>>),
              <<>>) :
            x \in strs, n \in 0..1, m \in 0..1}

\* zero and non-zero values under check lists that mix exempted and
\* skipped names
SkipCases ==
    LET vals == {StrV(""), IntV(0), NilPtr, BoolV(FALSE), StrV("foo")}
        tags == {tUuid, And(tUuid, tRequired), And(tRequired, tUuid),
                 And(tUuid, Arg("min", "0")),
                 And(Arg("min", "0"), And(tUuid, tRequired))}
    IN  {Case(Struct(<<Pub("F", t, x)>>), <<>>) : x \in vals, t \in tags}
        \cup
        {Case(x, <<tUuid, tRequired>>) : x \in vals}

\* records with non-public fields: between public fields, nested, and
\* holding a record of their own
PrivateCases ==
    LET strs == {StrV(""), StrV("foo")}
        A(a) == Pub("A", tRequired, a)
        C(c) == Pub("C", tRequired, c)
        X    == Struct(<<Pub("X", tRequired, StrV(""))>>)
        Y    == Struct(<<Priv("y", tRequired, StrV(""))>>)
    IN  {Case(Struct(<<A(a), Priv("b", t, StrV("")), C(c)>>), <<>>) :
            a \in strs, c \in strs, t \in {tRequired, <<>>, <<" ">>}}
        \cup
        {Case(Struct(<<Pub("In", <<>>, Y), C(c)>>), <<>>) : c \in strs}
        \cup
        {Case(Struct(<<Priv("in", t, X), C(c)>>), <<>>) :
            c \in strs, t \in {tRequired, <<>>}}
        \cup
        {Case(Struct(<<Priv("in", <<>>, Y), C(c)>>), <<>>) : c \in strs}

\* check lists with extra separators, empty segments and blanks, and
\* malformed parameterized segments
MessyTags ==
    {<<" ", "required", ",", ",", ",", " ", " ", "uuid", " ", " ">>,
     <<",", " ", ",">>,
     <<"min", ":", "3", " ", ",", ",", " ", "required", ",">>,
     <<" ", "required">>,
     And(tRequired, tUuid)}

MalformedTags ==
    {<<"foo", ":">>, <<":", "foo">>, <<"foo", ":", "bar", ":", "baz">>,
     <<"bogus", ":", "3">>, <<":">>}

ParseCases ==
    LET vals == {StrV("uuid"), StrV("")}
    IN  {Case(x, <<t>>) : x \in vals, t \in MessyTags \cup MalformedTags}
        \cup
        {Case(Struct(<<Pub("F", t, x)>>), <<>>) :
            x \in vals, t \in MessyTags \cup MalformedTags}
        \cup
        {Case(x, <<tRequired, t, tUuid>>) : x \in vals, t \in MalformedTags}
        \cup
        {Case(x, <<tRequired, <<>>, <<" ">>, tUuid>>) : x \in vals}
        \cup
        {Case(StrV("uuid"), <<Arg("min", "3"), t>>) :
            t \in {Arg("bogus", "3"), <<"foo", ":">>}}
        \cup
        {Case(Struct(<<Pub("F", And(Arg("min", "3"), Arg("bogus", "3")),
                           StrV("uuid"))>>), <<>>)}

\* plain and parameterized checks on one value, for a program that
\* registers checkers and makers
RegistryCases ==
    {Case(StrV("foo"), tags) :
        tags \in {<<tRequired>>, <<<<"foo">>>>, <<Arg("min", "3")>>,
                  <<Arg("min", "3"), Arg("min", "5")>>,
                  <<Arg("m", "3")>>, <<Arg("m", "3"), Arg("m", "5")>>}}

\* one value under a parameterized check, a check whose maker rejects the
\* argument, and the same text twice in one list, for a program that calls
\* from several goroutines
ConcCases ==
    {Case(StrV("foo"), tags) :
        tags \in {<<Arg("min", "3")>>, <<Arg("min", "3"), Arg("min", "3")>>,
                  <<Arg("min", "5")>>, <<Arg("regex", "[A-")>>}}

\* fields that hold a nil reference behind 0..MaxDepth references, a zero
\* value or a set value, under required, a pattern check and size checks
AbsentCases ==
    LET vals == {Wrap(NilPtr, n) : n \in 0..MaxDepth}
                \cup {StrV(""), IntV(0), BoolV(FALSE), StrV("foo"), IntV(3)}
        tags == {tRequired, tUuid, Arg("min", "3"), Arg("max", "5"),
                 And(Arg("min", "3"), Arg("max", "5")), Arg("eq", "0"),
                 Arg("ne", "0"), And(tRequired, Arg("min", "3")),
                 And(tUuid, Arg("ne", "3")), Arg("min", "x")}
    IN  {Case(Struct(<<Pub("F", t, x)>>), <<>>) : x \in vals, t \in tags}
        \cup
        {Case(Struct(<<Pub("In", <<>>, Struct(<<Pub("F", t, x)>>)),
                       Pub("G", tRequired, x)>>), <<>>) :
            x \in vals, t \in {tUuid, Arg("min", "3")}}

\* records with checked fields, plain and behind a reference, validated
\* under explicit checks: none, one, and several that Validate joins
TopCases ==
    LET A(a) == Pub("A", tRequired, a)
        B(b) == Pub("B", tUuid, b)
    IN  {Case(Wrap(Struct(<<A(a), B(b)>>), m), tags) :
            a \in {StrV(""), StrV("foo")},
            b \in {StrV(""), StrV("foo"), StrV("uuid")},
            m \in 0..1,
            tags \in {<<>>, <<tRequired>>, <<tRequired, tRequired>>,
                      <<tRequired, Arg("min", "3")>>, <<tRequired, tUuid>>,
                      <<<<"bogus">>>>}}

\* numbers and things with a length, zero and not, nil and not, under each
\* size check with an argument below, at and above them, a negative one
\* and one that is no number
SizeCases ==
    LET vals == {IntV(0), IntV(3), UintV(0), UintV(5), StrV(""), StrV("foo"),
                 NilSlice, SliceV(0), SliceV(3)}
        ops  == {"eq", "ne", "min", "max"}
    IN  {Case(x, <<Arg(op, n)>>) : x \in vals, op \in ops, n \in {"0", "5", "x"}}
        \cup
        {Case(x, <<Arg(op, "3")>>) :
            x \in {IntV(3), StrV("foo"), SliceV(3)}, op \in ops}
        \cup
        {Case(x, <<Arg(op, "-1")>>) :
            x \in {IntV(0), UintV(0), UintV(5)}, op \in ops}
        \cup
        {Case(Struct(<<Pub("F", t, x)>>), <<>>) :
            x \in {IntV(0), StrV("foo"), NilSlice, SliceV(0)},
            t \in {Arg("min", "5"), Arg("ne", "0"), Arg("max", "x")}}

\* one check list written with blanks and "=", one with the default
\* separators, on a field and given to Validate
SpacedTags == {<<"required", " ", " ", " ", " ", "min", "=", "3">>}

DefaultTags == {And(tRequired, Arg("min", "3"))}

SepCases ==
    {Case(Struct(<<Pub("Foo", t, StrV("foo"))>>), <<>>) :
        t \in SpacedTags \cup DefaultTags}
    \cup
    {Case(StrV("foo"), <<t>>) : t \in SpacedTags \cup DefaultTags}

\* the calls of the goroutines where only their returning is of interest:
\* a text that is cached, and one whose maker answers an error
LiveCases ==
    {Case(StrV("foo"), tags) :
        tags \in {<<Arg("min", "3")>>, <<Arg("min", "3"), Arg("regex", "[A-")>>}}

Worlds ==
    {"order", "refs", "skip", "private", "parse", "registry", "absent", "top",
     "size", "seps"}

CasesOf(w) ==
    CASE w = "order"    -> OrderCases
      [] w = "refs"     -> RefsCases
      [] w = "skip"     -> SkipCases
      [] w = "private"  -> PrivateCases
      [] w = "parse"    -> ParseCases
      [] w = "registry" -> RegistryCases
      [] w = "absent"   -> AbsentCases
      [] w = "top"      -> TopCases
      [] w = "size"     -> SizeCases
      [] w = "seps"     -> SepCases
      [] w = "live"     -> LiveCases
      [] w = "conc"     -> ConcCases

\* the names RegisterChecker is called with
NamesOf(w) ==
    CASE w = "parse"    -> {<<"foo">>, <<"foo", ":">>}
      [] w = "registry" -> {tRequired, <<"foo">>, Arg("m", "3")}
      [] w \in {"conc", "live"} -> {Arg("min", "3")}
      [] OTHER          -> {}

\* the checkers RegisterChecker is called with
CheckersOf(w) ==
    CASE w = "parse"    -> {Custom("pass")}
      [] w = "registry" -> {Custom("pass"), Custom("fail")}
      [] w \in {"conc", "live"} -> {Custom("pass")}
      [] OTHER          -> {}

\* the names RegisterCheckerMaker is called with
MakerNamesOf(w) ==
    CASE w = "parse"    -> {<<"foo">>, <<"bogus">>}
      [] w = "registry" -> {<<"m">>, <<"min">>}
      [] w \in {"conc", "live"} -> {<<"min">>}
      [] OTHER          -> {}

\* the makers RegisterCheckerMaker is called with
MakersOf(w) ==
    CASE w = "parse"    -> {"m1"}
      [] w = "registry" -> {"m1", "m2"}
      [] w \in {"conc", "live"} -> {"m1"}
      [] OTHER          -> {}

\* the number of calls the program makes
OpsOf(w) == IF w \in {"registry", "seps"} THEN MaxRegOps ELSE MaxOps

(***************************************************************************)
(* The texts handed to the checksum checks: every text of up to            *)
(* MaxLuhnLen characters and the card numbers of the tests for luhn; the   *)
(* ISBNs of the tests with up to MaxIsbnEdits characters replaced for      *)
(* isbn.                                                                   *)
(***************************************************************************)
MaxLuhnLen == 3

MaxIsbnEdits == 2

LuhnChars == {"0", "1", "2", "3", "4", "5", "6", "7", "8", "9", " ", "-", "a"}

LuhnVectors ==
    {<<"4", "1", "1", "1", "1", "1", "1", "1", "1", "1", "1", "1", "1", "1", "1", "1">>,
     <<"4", "1", "1", "1", "1", "1", "1", "1", "1", "1", "1", "1", "1", "1", "1", "2">>,
     <<"4", "1", "1", "1", " ", "1", "1", "1", "1", " ", "1", "1", "1", "1", " ", "1", "1", "1", "1">>,
     <<"4", "1", "1", "1", "-", "1", "1", "1", "1", "-", "1", "1", "1", "1", "-", "1", "1", "1", "1">>,
     <<"4", "1", "1", "1", "-", "1", "1", "1", "1", "-", "1", "1", "1", "1", "-", "1", "1", "1", "a">>,
     <<"4", "2", "4", "2", "4", "2", "4", "2", "4", "2", "4", "2", "4", "2", "4", "2">>}

LuhnInputs ==
    UNION {[1..n -> LuhnChars] : n \in 0..MaxLuhnLen} \cup LuhnVectors

IsbnChars == {"0", "9", "X", "x", "Y", "-"}

IsbnVectors ==
    {<<"0", "3", "0", "6", "4", "0", "6", "1", "5", "2">>,
     <<"0", "8", "0", "4", "4", "2", "9", "5", "7", "X">>,
     <<"0", "-", "3", "0", "6", "-", "4", "0", "6", "1", "5", "-", "2">>,
     <<"9", "7", "8", "3", "1", "6", "1", "4", "8", "4", "1", "0", "0">>,
     <<"9", "7", "8", "-", "3", "-", "1", "6", "-", "1", "4", "8", "4", "1", "0",
       "-", "0">>}

\* an edit puts a character at a position; one past the end of the text
\* leaves the text as it is
IsbnEdits == [1..MaxIsbnEdits -> (1..13) \X IsbnChars]

MaxNpiEdits == 2

NpiChars == {"0", "5", "-", "a"}

NpiVectors ==
    {<<"1", "2", "3", "4", "5", "6", "7", "8", "9", "3">>,
     <<"1", "2", "3", "4", "5", "6", "7", "8", "9", "0">>,
     <<"1", "2", "3", "4", "5", "6", "7", "8", "9">>,
     <<"1", "2", "3", "4", "5", "6", "7", "8", "a", "3">>,
     <<>>}

NpiEdits == [1..MaxNpiEdits -> (1..10) \X NpiChars]

RECURSIVE Edited(_, _, _)
Edited(s, e, k) ==
    IF k = 0 THEN s
    ELSE Edited(IF e[k][1] <= Len(s) THEN [s EXCEPT ![e[k][1]] = e[k][2]] ELSE s,
                e, k - 1)

(***************************************************************************)
(* The sequential program: every call runs to completion.                  *)
(*   v           the Validator                                             *)
(*   call        the last call: its arguments, the Validator and the       *)
(*               cached checkers before it, its error and its log          *)
(*   registered  the explicit registrations: name -> checker of the last   *)
(*               RegisterChecker(name, checker) call                       *)
(*   cached      the checkers that parse cached and that no explicit       *)
(*               registration replaced since: text -> checker              *)
(*   nops        the number of calls made (by all goroutines together)     *)
(*   world       the program that uses the library                         *)
(* The goroutines of a concurrent program, which the sequential program    *)
(* leaves alone:                                                           *)
(*   thr         for each goroutine, where it stands in its call and the   *)
(*               locals of the call                                        *)
(*   mu          the sync.RWMutex of the Validator: the goroutines that    *)
(*               hold it for reading, the one that holds it for writing,   *)
(*               those blocked in Lock                                     *)
(*   hist        the maker invocations so far, and the texts that parse    *)
(*               has cached a checker under                                *)
(***************************************************************************)
VARIABLES v, call, registered, cached, nops, world, thr, mu, hist

conc == <<thr, mu, hist>>

vars == <<v, call, registered, cached, nops, world, thr, mu, hist>>

Threads == {"t1", "t2"}

NoThread == "none"

Idle ==
    [pc |-> "idle", op |-> "none", n |-> 0, val |-> Invalid, tags |-> <<>>,
     segs |-> <<>>,
     i |-> 0, tag |-> <<>>, cx |-> <<>>, cxNames |-> <<>>, ck |-> Nil,
     name |-> <<>>, fn |-> Nil, cm |-> "", err |-> NoErr, late |-> FALSE]

Unlocked == [readers |-> {}, writer |-> NoThread, waiting |-> {}]

NoHist == [invoked |-> <<>>, materialized |-> {}]

InitConc ==
    /\ thr = [t \in Threads |-> Idle]
    /\ mu = Unlocked
    /\ hist = NoHist

NoCall(op, pre) ==
    [op |-> op, val |-> Invalid, tags |-> <<>>, name |-> <<>>, ck |-> Nil,
     cm |-> "", err |-> NoErr, log |-> EmptyLog, pre |-> pre,
     cached |-> cached]

Init ==
    /\ v = New
    /\ registered = New.checkers
    /\ cached = <<>>
    /\ call = NoCall("New", New)
    /\ nops = 0
    /\ world \in Worlds
    /\ InitConc

Returned(val, tags, r) ==
    /\ v' = r.v
    /\ call' = [NoCall("Validate", v) EXCEPT
                    !.val = val, !.tags = tags, !.err = r.err, !.log = r.log]
    /\ cached' = [t \in DOMAIN cached \cup (DOMAIN r.v.checkers \ DOMAIN v.checkers) |->
                      r.v.checkers[t]]

DoValidate(val, tags) ==
    /\ nops < OpsOf(world)
    /\ Returned(val, tags, Validate(v, val, tags))
    /\ nops' = nops + 1
    /\ UNCHANGED <<registered, world, conc>>

DoRegisterChecker(name, fn) ==
    /\ nops < OpsOf(world)
    /\ v' = RegisterChecker(v, name, fn)
    /\ call' = [NoCall("RegisterChecker", v) EXCEPT !.name = name, !.ck = fn]
    /\ registered' = (name :> fn) @@ registered
    /\ cached' = [t \in DOMAIN cached \ {name} |-> cached[t]]
    /\ nops' = nops + 1
    /\ UNCHANGED <<world, conc>>

DoRegisterCheckerMaker(name, fn) ==
    /\ nops < OpsOf(world)
    /\ v' = RegisterCheckerMaker(v, name, fn)
    /\ call' = [NoCall("RegisterCheckerMaker", v) EXCEPT !.name = name, !.cm = fn]
    /\ nops' = nops + 1
    /\ UNCHANGED <<registered, cached, world, conc>>

\* v.CheckSep = cs; v.CheckArgSep = as
SetSeparators(cs, as) ==
    /\ nops < OpsOf(world)
    /\ <<cs, as>> # <<v.CheckSep, v.CheckArgSep>>
    /\ v' = [v EXCEPT !.CheckSep = cs, !.CheckArgSep = as]
    /\ call' = NoCall("SetSeparators", v)
    /\ nops' = nops + 1
    /\ UNCHANGED <<registered, cached, world, conc>>

\* v.ErrorOnPrivate = b
SetErrorOnPrivate(b) ==
    /\ nops < OpsOf(world)
    /\ b # v.ErrorOnPrivate
    /\ v' = [v EXCEPT !.ErrorOnPrivate = b]
    /\ call' = NoCall("SetErrorOnPrivate", v)
    /\ nops' = nops + 1
    /\ UNCHANGED <<registered, cached, world, conc>>

\* v.DontSkipZeroChecks = names
SetDontSkipZeroChecks(names) ==
    /\ nops < OpsOf(world)
    /\ names # v.DontSkipZeroChecks
    /\ v' = [v EXCEPT !.DontSkipZeroChecks = names]
    /\ call' = NoCall("SetDontSkipZeroChecks", v)
    /\ nops' = nops + 1
    /\ UNCHANGED <<registered, cached, world, conc>>

SkipSets == {DefaultDontSkipZero, {tUuid}, {tRequired, tUuid}}

Next ==
    \/ \E c \in CasesOf(world) : DoValidate(c.val, c.tags)
    \/ \E name \in NamesOf(world), fn \in CheckersOf(world) :
          DoRegisterChecker(name, fn)
    \/ \E name \in MakerNamesOf(world), fn \in MakersOf(world) :
          DoRegisterCheckerMaker(name, fn)
    \/ \E cs \in {",", " "}, as \in {":", "="} : SetSeparators(cs, as)
    \/ \E b \in BOOLEAN : SetErrorOnPrivate(b)
    \/ \E names \in SkipSets : SetDontSkipZeroChecks(names)

Spec == Init /\ [][Next]_vars

(***************************************************************************)
(* The concurrent program.  Goroutines call Validate, RegisterChecker and  *)
(* RegisterCheckerMaker on one Validator; a step is what a goroutine does  *)
(* up to and including its next operation on the mutex or its next call    *)
(* of a maker.  The values validated are not records, so a call is one     *)
(* validateScalar: parse, then the loop over the bound checks.             *)
(*                                                                         *)
(*   pc      idle    between calls; err is the answer of the last call     *)
(*           rlock1  before v.RLock() of the lookup of tag in v.checkers   *)
(*           read1   holding the read lock, before ck := v.checkers[tag]   *)
(*           rlock2  before v.RLock() of the lookup in v.checkerMakers     *)
(*           read2   holding the read lock, before cm := v.checkerMakers   *)
(*           make    before c, err2 := cm(arg)                             *)
(*           lock    before v.Lock() in RegisterChecker(Maker)             *)
(*           wait    blocked in v.Lock()                                   *)
(*           write   holding the write lock, before the assignment         *)
(*   late    the lookup of tag came after parse had cached a checker       *)
(*           under it                                                      *)
(***************************************************************************)
\* return err
finish(r, err) ==
    [Idle EXCEPT !.op = r.op, !.n = r.n, !.err = err, !.late = r.late,
                 !.cx = r.cx, !.tag = r.tag, !.val = r.val, !.tags = r.tags]

\* the head of the loop of parse at segment r.i; after the last segment,
\* the loop of validateScalar over the bound checks
RECURSIVE advance(_, _)
advance(w, r) ==
    IF r.i > Len(r.segs)
    THEN finish(r, runChecks(w, r.val, r.cx, r.cxNames, 1, <<>>, <<>>).err)
    ELSE IF TrimSpace(r.segs[r.i]) = <<>>
    THEN advance(w, [r EXCEPT !.i = @ + 1])
    ELSE [r EXCEPT !.tag = TrimSpace(r.segs[r.i]), !.pc = "rlock1"]

\* cx = append(cx, c); cxNames = append(cxNames, name)
bind(w, r, c, name) ==
    advance(w, [r EXCEPT !.cx = Append(@, c), !.cxNames = Append(@, name),
                         !.i = @ + 1])

afterSplit(r, tagz) ==
    IF Len(tagz) # 2 \/ tagz[1] = <<>> \/ tagz[2] = <<>>
    THEN finish(r, InvalidChecker(r.tag, NoErr))
    ELSE [r EXCEPT !.pc = "rlock2"]

\* the switch of parse with the maker tried before the checker found
afterLookupMakerFirst(w, r) ==
    IF Contains(r.tag, w.CheckArgSep)
    THEN afterSplit(r, Split(r.tag, w.CheckArgSep))
    ELSE IF r.ck # Nil THEN bind(w, r, r.ck, r.tag)
    ELSE finish(r, InvalidChecker(r.tag, NoErr))

\* the switch of parse, once ck is read
afterLookup(w, r) ==
    IF r.ck # Nil THEN bind(w, r, r.ck, r.tag)
    ELSE IF Contains(r.tag, w.CheckArgSep)
    THEN afterSplit(r, Split(r.tag, w.CheckArgSep))
    ELSE finish(r, InvalidChecker(r.tag, NoErr))

\* once cm is read
afterMakerLookup(r) ==
    IF r.cm = "" THEN finish(r, InvalidChecker(r.tag, NoErr))
    ELSE [r EXCEPT !.pc = "make"]

\* once the maker answered m
afterMake(r, m) ==
    IF m.err # NoErr THEN finish(r, InvalidChecker(r.tag, m.err))
    ELSE [r EXCEPT !.name = r.tag, !.fn = m.c, !.pc = "lock"]

\* Validate(val, tags...) up to the first lookup
CallValidate(t, val, tags) ==
    /\ thr[t].pc = "idle"
    /\ nops < MaxCalls
    /\ Join(tags, v.CheckSep) # <<>>
    /\ thr' = [thr EXCEPT ![t] =
                  advance(v, [Idle EXCEPT
                                !.op = "Validate", !.n = thr[t].n + 1,
                                !.val = Deref(val), !.tags = tags, !.i = 1,
                                !.segs = Split(Join(tags, v.CheckSep), v.CheckSep)])]
    /\ nops' = nops + 1
    /\ UNCHANGED <<v, call, registered, cached, world, mu, hist>>

\* RegisterChecker(name, fn) up to v.Lock()
CallRegisterChecker(t, name, fn) ==
    /\ thr[t].pc = "idle"
    /\ nops < MaxCalls
    /\ thr' = [thr EXCEPT ![t] =
                  [Idle EXCEPT !.op = "RegisterChecker", !.n = thr[t].n + 1,
                               !.name = name, !.fn = fn, !.pc = "lock"]]
    /\ nops' = nops + 1
    /\ UNCHANGED <<v, call, registered, cached, world, mu, hist>>

\* RegisterCheckerMaker(name, fn) up to v.Lock()
CallRegisterCheckerMaker(t, name, fn) ==
    /\ thr[t].pc = "idle"
    /\ nops < MaxCalls
    /\ thr' = [thr EXCEPT ![t] =
                  [Idle EXCEPT !.op = "RegisterCheckerMaker", !.n = thr[t].n + 1,
                               !.name = name, !.cm = fn, !.pc = "lock"]]
    /\ nops' = nops + 1
    /\ UNCHANGED <<v, call, registered, cached, world, mu, hist>>

\* v.RLock(): waits while a goroutine holds or awaits the write lock
RLock(t) ==
    /\ thr[t].pc \in {"rlock1", "rlock2"}
    /\ mu.writer = NoThread
    /\ mu.waiting = {}
    /\ mu' = [mu EXCEPT !.readers = @ \cup {t}]
    /\ thr' = [thr EXCEPT ![t].pc = IF @ = "rlock1" THEN "read1" ELSE "read2"]
    /\ UNCHANGED <<v, call, registered, cached, nops, world, hist>>

\* ck := v.checkers[tag]; v.RUnlock(); and the switch on ck
ReadChecker(t) ==
    /\ thr[t].pc = "read1"
    /\ thr' = [thr EXCEPT ![t] =
                  afterLookup(v, [@ EXCEPT
                      !.ck = IF thr[t].tag \in DOMAIN v.checkers
                             THEN v.checkers[thr[t].tag] ELSE Nil,
                      !.late = thr[t].tag \in hist.materialized])]
    /\ mu' = [mu EXCEPT !.readers = @ \ {t}]
    /\ UNCHANGED <<v, call, registered, cached, nops, world, hist>>

\* the lookup of the maker with v.RUnlock() left out
ReadMakerHold(t) ==
    /\ thr[t].pc = "read2"
    /\ thr' = [thr EXCEPT ![t] =
                  afterMakerLookup([@ EXCEPT
                      !.cm = IF Split(thr[t].tag, v.CheckArgSep)[1]
                                    \in DOMAIN v.checkerMakers
                             THEN v.checkerMakers[Split(thr[t].tag, v.CheckArgSep)[1]]
                             ELSE ""])]
    /\ UNCHANGED <<v, call, registered, cached, nops, world, hist, mu>>

\* cm := v.checkerMakers[tagz[0]]; v.RUnlock(); and the test of cm
ReadMaker(t) ==
    /\ thr[t].pc = "read2"
    /\ thr' = [thr EXCEPT ![t] =
                  afterMakerLookup([@ EXCEPT
                      !.cm = IF Split(thr[t].tag, v.CheckArgSep)[1]
                                    \in DOMAIN v.checkerMakers
                             THEN v.checkerMakers[Split(thr[t].tag, v.CheckArgSep)[1]]
                             ELSE ""])]
    /\ mu' = [mu EXCEPT !.readers = @ \ {t}]
    /\ UNCHANGED <<v, call, registered, cached, nops, world, hist>>

\* c, err2 := cm(tagz[1])
CallMaker(t) ==
    /\ thr[t].pc = "make"
    /\ thr' = [thr EXCEPT ![t] =
                  afterMake(@, Make(@.cm, Split(@.tag, v.CheckArgSep)[2]))]
    /\ hist' = [hist EXCEPT !.invoked =
                   Append(@, [t |-> t, n |-> thr[t].n, maker |-> thr[t].cm,
                              tag |-> thr[t].tag, late |-> thr[t].late])]
    /\ UNCHANGED <<v, call, registered, cached, nops, world, mu>>

\* v.Lock(): taken at once when the mutex is free, else the goroutine
\* blocks, and keeps new readers out
Lock(t) ==
    /\ thr[t].pc = "lock"
    /\ IF mu.readers = {} /\ mu.writer = NoThread
       THEN /\ mu' = [mu EXCEPT !.writer = t]
            /\ thr' = [thr EXCEPT ![t].pc = "write"]
       ELSE /\ mu' = [mu EXCEPT !.waiting = @ \cup {t}]
            /\ thr' = [thr EXCEPT ![t].pc = "wait"]
    /\ UNCHANGED <<v, call, registered, cached, nops, world, hist>>

\* v.Lock() that returns although the mutex is held
AcquireHeld(t) ==
    /\ thr[t].pc = "wait"
    /\ mu' = [mu EXCEPT !.writer = t, !.waiting = @ \ {t}]
    /\ thr' = [thr EXCEPT ![t].pc = "write"]
    /\ UNCHANGED <<v, call, registered, cached, nops, world, hist>>

\* v.Lock() returns to a blocked goroutine
Acquire(t) ==
    /\ thr[t].pc = "wait"
    /\ mu.readers = {}
    /\ mu.writer = NoThread
    /\ mu' = [mu EXCEPT !.writer = t, !.waiting = @ \ {t}]
    /\ thr' = [thr EXCEPT ![t].pc = "write"]
    /\ UNCHANGED <<v, call, registered, cached, nops, world, hist>>

\* v.checkers[name] = fn; v.Unlock(), in a call of RegisterChecker
WriteChecker(t) ==
    /\ thr[t].pc = "write"
    /\ thr[t].op = "RegisterChecker"
    /\ v' = RegisterChecker(v, thr[t].name, thr[t].fn)
    /\ registered' = (thr[t].name :> thr[t].fn) @@ registered
    /\ cached' = [x \in DOMAIN cached \ {thr[t].name} |-> cached[x]]
    /\ mu' = [mu EXCEPT !.writer = NoThread]
    /\ thr' = [thr EXCEPT ![t] = finish(@, NoErr)]
    /\ UNCHANGED <<call, nops, world, hist>>

\* v.checkers[tag] = c; v.Unlock(), in the RegisterChecker that parse
\* calls; then parse binds c and goes on
WriteCached(t) ==
    /\ thr[t].pc = "write"
    /\ thr[t].op = "Validate"
    /\ v' = RegisterChecker(v, thr[t].name, thr[t].fn)
    /\ cached' = (thr[t].name :> thr[t].fn) @@ cached
    /\ hist' = [hist EXCEPT !.materialized = @ \cup {thr[t].name}]
    /\ mu' = [mu EXCEPT !.writer = NoThread]
    /\ thr' = [thr EXCEPT ![t] =
                  bind(v, @, @.fn, Split(@.tag, v.CheckArgSep)[1])]
    /\ UNCHANGED <<call, registered, nops, world>>

\* v.checkerMakers[name] = fn; v.Unlock()
WriteMaker(t) ==
    /\ thr[t].pc = "write"
    /\ thr[t].op = "RegisterCheckerMaker"
    /\ v' = RegisterCheckerMaker(v, thr[t].name, thr[t].cm)
    /\ mu' = [mu EXCEPT !.writer = NoThread]
    /\ thr' = [thr EXCEPT ![t] = finish(@, NoErr)]
    /\ UNCHANGED <<call, registered, cached, nops, world, hist>>

InitC ==
    /\ v = New
    /\ registered = New.checkers
    /\ cached = <<>>
    /\ call = NoCall("New", New)
    /\ nops = 0
    /\ world = "conc"
    /\ InitConc

NextConc ==
    \E t \in Threads :
        \/ \E c \in CasesOf(world) : CallValidate(t, c.val, c.tags)
        \/ \E name \in NamesOf(world), fn \in CheckersOf(world) :
              CallRegisterChecker(t, name, fn)
        \/ \E name \in MakerNamesOf(world), fn \in MakersOf(world) :
              CallRegisterCheckerMaker(t, name, fn)
        \/ RLock(t)
        \/ ReadChecker(t)
        \/ ReadMaker(t)
        \/ CallMaker(t)
        \/ Lock(t)
        \/ Acquire(t)
        \/ WriteChecker(t)
        \/ WriteCached(t)
        \/ WriteMaker(t)

SpecConc == InitC /\ [][NextConc]_vars

\* what goroutine t does inside a call, from the step after its entry to
\* its return
Step(t) ==
    \/ RLock(t)
    \/ ReadChecker(t)
    \/ ReadMaker(t)
    \/ CallMaker(t)
    \/ Lock(t)
    \/ Acquire(t)
    \/ WriteChecker(t)
    \/ WriteCached(t)
    \/ WriteMaker(t)

\* the concurrent program under a scheduler that runs every goroutine
\* that stays able to run, and a mutex that wakes a blocked goroutine once
\* it stays free
InitLive ==
    /\ v = New
    /\ registered = New.checkers
    /\ cached = <<>>
    /\ call = NoCall("New", New)
    /\ nops = 0
    /\ world = "live"
    /\ InitConc

SpecConcFair ==
    InitLive /\ [][NextConc]_vars /\ \A t \in Threads : WF_vars(Step(t))

(***************************************************************************)
(* The checksum checks by themselves: a caller holds a text (call.val) and *)
(* hands it to the check named call.name, whose error is recorded.         *)
(***************************************************************************)
Input(name, s) == [NoCall("input", New) EXCEPT !.name = name, !.val = s]

InitSum ==
    /\ v = New
    /\ registered = New.checkers
    /\ cached = <<>>
    /\ nops = 0
    /\ world = "sum"
    /\ InitConc
    /\ \/ \E s \in LuhnInputs : call = Input(<<"luhn">>, s)
       \/ \E s \in IsbnVectors, e \in IsbnEdits :
             call = Input(<<"isbn">>, Edited(s, e, MaxIsbnEdits))
       \/ \E s \in NpiVectors, e \in NpiEdits :
             call = Input(<<"npi">>, Edited(s, e, MaxNpiEdits))

ApplyLuhn ==
    /\ call.op = "input"
    /\ call.name = <<"luhn">>
    /\ call' = [call EXCEPT !.op = "luhn", !.err = luhn(call.val)]
    /\ nops' = nops + 1
    /\ UNCHANGED <<v, registered, cached, world, conc>>

ApplyIsbn ==
    /\ call.op = "input"
    /\ call.name = <<"isbn">>
    /\ call' = [call EXCEPT !.op = "isbn", !.err = isbn(call.val)]
    /\ nops' = nops + 1
    /\ UNCHANGED <<v, registered, cached, world, conc>>

ApplyNpi ==
    /\ call.op = "input"
    /\ call.name = <<"npi">>
    /\ call' = [call EXCEPT !.op = "npi", !.err = npi(call.val)]
    /\ nops' = nops + 1
    /\ UNCHANGED <<v, registered, cached, world, conc>>

NextSum == ApplyLuhn \/ ApplyIsbn \/ ApplyNpi

SpecSum == InitSum /\ [][NextSum]_vars

(***************************************************************************)
(* The visits of a record: what the walk would check if nothing failed,    *)
(* in depth-first declaration order.  A visit is the record's own check    *)
(* list, a field's check list, or a private field that carries checks      *)
(* while the private-field policy is to report it.                         *)
(***************************************************************************)
RECURSIVE Visits(_, _, _, _)
RECURSIVE FieldVisits(_, _, _, _)
Visits(val0, tag, scope, errorOnPrivate) ==
    LET val == Deref(val0)
    IN  (IF tag # <<>>
         THEN <<[scope |-> scope, tag |-> tag, val |-> val, private |-> FALSE]>>
         ELSE <<>>)
        \o (IF val.kind = "Struct"
            THEN FieldVisits(val, 1, scope, errorOnPrivate) ELSE <<>>)

FieldVisits(val, i, scope, errorOnPrivate) ==
    IF i > Len(val.fields) THEN <<>>
    ELSE LET f    == val.fields[i]
             tag  == TrimSpace(f.tag)
             here == scope \o <<f.name>>
         IN  (IF ~f.exported
              THEN IF errorOnPrivate /\ tag # <<>>
                   THEN <<[scope |-> here, tag |-> tag, val |-> f.val,
                           private |-> TRUE]>>
                   ELSE <<>>
              ELSE IF tag = <<>> /\ Deref(f.val).kind # "Struct" THEN <<>>
              ELSE Visits(f.val, tag, here, errorOnPrivate))
             \o FieldVisits(val, i + 1, scope, errorOnPrivate)

\* the visits of the last call, and the error each one yields on its own
CallVisits ==
    Visits(call.val, Join(call.tags, call.pre.CheckSep), <<>>,
           call.pre.ErrorOnPrivate)

OwnErr(e) ==
    IF e.private THEN PrivateField(e.scope)
    ELSE validateScalar(call.pre, e.val, e.tag, e.scope, EmptyLog).err

Failing == {i \in 1..Len(CallVisits) : OwnErr(CallVisits[i]) # NoErr}

Min(S) == CHOOSE x \in S : \A y \in S : x <= y

(***************************************************************************)
(* C1.  Validate returns no error or exactly one error, that of the first  *)
(* failing visit in depth-first declaration order; within a field whose    *)
(* check list parses, that of the first failing check in list order.  No   *)
(* check of a later field is run: when A, B and C would each fail, the     *)
(* error names only A.                                                     *)
(***************************************************************************)
C1_FailFast ==
    call.op = "Validate" =>
        IF Failing = {} THEN call.err = NoErr
        ELSE LET k == Min(Failing)
             IN  /\ call.err = OwnErr(CallVisits[k])
                 /\ call.err # NoErr
                 /\ \A j \in 1..Len(call.log.ran) :
                       \E i \in 1..k : call.log.ran[j].scope = CallVisits[i].scope
                 /\ \A j \in 1..Len(call.log.ran) :
                       call.log.ran[j].scope = CallVisits[k].scope =>
                          /\ \A h \in 1..(j - 1) :
                                call.log.ran[h].scope = CallVisits[k].scope =>
                                   Apply(call.log.ran[h].ck, CallVisits[k].val) = NoErr
                          /\ Apply(call.log.ran[j].ck, CallVisits[k].val) # NoErr =>
                                j = Len(call.log.ran)

\* three fields that each fail on their own: only the first is reported
C1_Witness ==
    /\ call.op = "Validate"
    /\ Cardinality(Failing) >= 3
    /\ call.err.scope = <<"A">>
    /\ \A j \in 1..Len(call.log.ran) : call.log.ran[j].scope = <<"A">>

(***************************************************************************)
(* Reference wrapping.  Strip(val) is val with every non-nil reference     *)
(* replaced by what it points to, at top level and in every field.         *)
(* Guarded(val, tag) says that no check list is attached to a record that  *)
(* holds a reference somewhere inside: tag is the check list of val.       *)
(***************************************************************************)
RECURSIVE Strip(_)
Strip(val) ==
    CASE val.kind = "Ptr" -> (IF val.nil THEN val ELSE Strip(val.elem))
      [] val.kind = "Struct" ->
            [val EXCEPT !.fields =
                [i \in DOMAIN val.fields |->
                    [val.fields[i] EXCEPT !.val = Strip(val.fields[i].val)]]]
      [] OTHER -> val

RECURSIVE Depth(_)
Depth(val) == IF val.kind = "Ptr" /\ ~val.nil THEN 1 + Depth(val.elem) ELSE 0

RECURSIVE Guarded(_, _)
Guarded(val0, tag) ==
    LET val == Deref(val0)
    IN  val.kind = "Struct" =>
           /\ TrimSpace(tag) # <<>> => Strip(val) = val
           /\ \A i \in 1..Len(val.fields) :
                 Guarded(val.fields[i].val, val.fields[i].tag)

SameAsStripped(c) ==
    Validate(c.pre, Strip(c.val), c.tags).err = c.err

(***************************************************************************)
(* C2 as stated.  Validate answers the same error (kind, scope and         *)
(* message) for a value and for the value with its non-nil references      *)
(* removed, whatever their depth, at top level and in every field.         *)
(***************************************************************************)
C2_AnyWrapping ==
    call.op = "Validate" => SameAsStripped(call)

(***************************************************************************)
(* C2.  Validate answers the same error (kind, scope and message) for a    *)
(* value and for the value with its non-nil references removed, whatever   *)
(* their depth, at top level and in every field, provided no check list    *)
(* is attached to a record that holds a reference inside: such a check     *)
(* sees the reference, not what it points to.                              *)
(***************************************************************************)
C2_RefTransparent ==
    (call.op = "Validate" /\ Guarded(call.val, Join(call.tags, call.pre.CheckSep)))
        => SameAsStripped(call)

\* a failing field behind two references in a record behind a reference
C2_Witness ==
    /\ call.op = "Validate"
    /\ Depth(call.val) >= 1
    /\ Deref(call.val).kind = "Struct"
    /\ Depth(Deref(call.val).fields[1].val) >= 2
    /\ Guarded(call.val, Join(call.tags, call.pre.CheckSep))
    /\ call.err = Scoped(<<"F">>, CheckFailed(tRequired, ErrRequired))

(***************************************************************************)
(* The segments of a check list: its trimmed, non-empty parts.             *)
(***************************************************************************)
RECURSIVE Trimmed(_)
Trimmed(segs) ==
    IF segs = <<>> THEN <<>>
    ELSE (IF TrimSpace(Head(segs)) = <<>> THEN <<>> ELSE <<TrimSpace(Head(segs))>>)
         \o Trimmed(Tail(segs))

Segments(tag, sep) == Trimmed(Split(tag, sep))

ZeroScalars == {StrV(""), IntV(0), BoolV(FALSE)}

IsScalar(val) == val.kind \in {"String", "Int", "Bool"}

\* the built-in required check is in place and exempted from skipping
RequiredInPlace(c) ==
    /\ tRequired \in DOMAIN c.pre.checkers
    /\ c.pre.checkers[tRequired] = required
    /\ tRequired \in c.pre.DontSkipZeroChecks

\* the visits of the last call whose check list holds only required and
\* whose value is a scalar or a nil reference
OnlyRequired ==
    {i \in 1..Len(CallVisits) :
        /\ ~CallVisits[i].private
        /\ Segments(CallVisits[i].tag, call.pre.CheckSep) = <<tRequired>>
        /\ IsScalar(CallVisits[i].val) \/ CallVisits[i].val = Invalid}

(***************************************************************************)
(* C3.  On an instance where required is the built-in check and exempted   *)
(* from skipping (as New builds it): a scalar or nil reference whose check *)
(* list holds only required passes when it is a non-zero scalar; when it   *)
(* is a zero scalar or a nil reference and nothing before it failed,       *)
(* Validate fails with ErrRequired wrapped as a check failure of           *)
(* "required", prefixed with the scope path of the field.                  *)
(***************************************************************************)
C3_Required ==
    (call.op = "Validate" /\ RequiredInPlace(call)) =>
        \A i \in OnlyRequired :
            IF CallVisits[i].val \in ZeroScalars \cup {Invalid}
            THEN (\A j \in 1..(i - 1) : j \notin Failing) =>
                    call.err = Scoped(CallVisits[i].scope,
                                      CheckFailed(tRequired, ErrRequired))
            ELSE /\ i \notin Failing
                 /\ Len(CallVisits) = 1 => call.err = NoErr

\* an empty string in field F, reported under the scope F
C3_Witness ==
    /\ call.op = "Validate"
    /\ RequiredInPlace(call)
    /\ call.val = Struct(<<Pub("F", tRequired, StrV(""))>>)
    /\ OnlyRequired = {1}
    /\ call.err = Scoped(<<"F">>, CheckFailed(tRequired, ErrRequired))

(***************************************************************************)
(* Skipping.  Names(e, c) are the display names of the check list of       *)
(* visit e, Exempt(e, c) those of them in the skip-exemption set, and      *)
(* RanAt(scope, c) the names of the checks that call c ran under a scope.  *)
(***************************************************************************)
Names(e, c) ==
    [k \in 1..Len(Segments(e.tag, c.pre.CheckSep)) |->
        Split(Segments(e.tag, c.pre.CheckSep)[k], c.pre.CheckArgSep)[1]]

IsExempt(c, n) == n \in c.pre.DontSkipZeroChecks

Exempt(e, c) == SelectSeq(Names(e, c), LAMBDA n : IsExempt(c, n))

RECURSIVE NamesAt(_, _)
NamesAt(ran, scope) ==
    IF ran = <<>> THEN <<>>
    ELSE (IF Head(ran).scope = scope THEN <<Head(ran).name>> ELSE <<>>)
         \o NamesAt(Tail(ran), scope)

\* ran are the first k of the exempted names; when some are left, the
\* call ended in the k-th
RanUpTo(ran, exempt, err, scope) ==
    \E k \in 0..Len(exempt) :
        /\ ran = SubSeq(exempt, 1, k)
        /\ k < Len(exempt) =>
              /\ k >= 1
              /\ \/ err = Panic
                 \/ /\ err.kind = "ErrCheckFailed"
                    /\ err.name = exempt[k]
                    /\ err.scope = scope

\* the visits the walk reached with a zero or absent value and a check list
\* that parses
ZeroVisits ==
    {i \in 1..Len(CallVisits) :
        /\ ~CallVisits[i].private
        /\ CallVisits[i].val \in ZeroScalars \cup {Invalid}
        /\ \A j \in 1..(i - 1) : j \notin Failing
        /\ OwnErr(CallVisits[i]).kind # "ErrInvalidChecker"}

(***************************************************************************)
(* C4.  Skip-on-zero is decided per check name: on a zero or absent value  *)
(* the checks that are run are those of the field's list whose display     *)
(* name is in the skip-exemption set of the instance, in list order up to  *)
(* the first that fails, and no other: `uuid` alone on a zero value runs   *)
(* nothing and passes, `uuid,required` runs required alone and fails with  *)
(* its error.                                                              *)
(***************************************************************************)
C4_SkipPerName ==
    call.op = "Validate" =>
        \A i \in ZeroVisits :
            RanUpTo(NamesAt(call.log.ran, CallVisits[i].scope),
                    Exempt(CallVisits[i], call), call.err, CallVisits[i].scope)

\* an empty string under uuid,required: uuid is skipped, required is run
C4_Witness ==
    /\ call.op = "Validate"
    /\ call.pre.DontSkipZeroChecks = DefaultDontSkipZero
    /\ call.val = Struct(<<Pub("F", And(tUuid, tRequired), StrV(""))>>)
    /\ ZeroVisits = {1}
    /\ NamesAt(call.log.ran, <<"F">>) = <<tRequired>>
    /\ call.err = Scoped(<<"F">>, CheckFailed(tRequired, ErrRequired))

(***************************************************************************)
(* Private fields.  PrivateFields(val, scope) are the non-public fields of *)
(* val that lie behind public fields only, each with its dotted path and   *)
(* its check list.                                                         *)
(***************************************************************************)
RECURSIVE PrivateFields(_, _)
PrivateFields(val0, scope) ==
    LET val == Deref(val0)
    IN  IF val.kind # "Struct" THEN {}
        ELSE UNION {IF ~val.fields[i].exported
                    THEN {[path |-> scope \o <<val.fields[i].name>>,
                           tag |-> val.fields[i].tag]}
                    ELSE PrivateFields(val.fields[i].val,
                                       scope \o <<val.fields[i].name>>) :
                    i \in 1..Len(val.fields)}

IsPrefix(p, q) == Len(p) <= Len(q) /\ SubSeq(q, 1, Len(p)) = p

PrivateVisits == {i \in 1..Len(CallVisits) : CallVisits[i].private}

\* every check that ran belongs to a visit before the i-th
RanBefore(ran, visits, i) ==
    \A h \in 1..Len(ran) : \E j \in 1..(i - 1) : ran[h].scope = visits[j].scope

\* nothing ran under the path and the error is not scoped under it
Untouched(path, c) ==
    /\ \A h \in 1..Len(c.log.ran) : ~IsPrefix(path, c.log.ran[h].scope)
    /\ c.err.kind \notin {"nil", "panic"} => ~IsPrefix(path, c.err.scope)

Canon(tag, sep) == Join(Segments(tag, sep), sep)

RECURSIVE CanonVal(_, _)
CanonVal(val, sep) ==
    CASE val.kind = "Ptr" ->
            (IF val.nil THEN val ELSE Ptr(CanonVal(val.elem, sep)))
      [] val.kind = "Struct" ->
            [val EXCEPT !.fields =
                [i \in DOMAIN val.fields |->
                    [val.fields[i] EXCEPT !.tag = Canon(val.fields[i].tag, sep),
                                          !.val = CanonVal(val.fields[i].val, sep)]]]
      [] OTHER -> val

IsCanonical(c) ==
    /\ CanonVal(c.val, c.pre.CheckSep) = c.val
    /\ <<Canon(Join(c.tags, c.pre.CheckSep), c.pre.CheckSep)>> = c.tags

\* the call answered r and left the Validator as w
SameCall(c, w, r) ==
    /\ r.err = c.err
    /\ r.log.bound = c.log.bound
    /\ r.log.ran = c.log.ran
    /\ r.v = w

(***************************************************************************)
(* C6.  A check list with extra check separators, empty segments and       *)
(* blanks around its segments is parsed as its canonical form is: the      *)
(* same checkers are bound in the same order, the same checks are run,     *)
(* the same error is returned and the same checkers are cached.  An empty  *)
(* segment is never an error.                                              *)
(***************************************************************************)
C6_ParseTolerant ==
    call.op = "Validate" =>
        SameCall(call, v,
                 Validate(call.pre, CanonVal(call.val, call.pre.CheckSep),
                          <<Canon(Join(call.tags, call.pre.CheckSep),
                                  call.pre.CheckSep)>>))

\* " required,,,  uuid  " binds required and uuid and passes on a uuid
C6_Witness ==
    /\ call.op = "Validate"
    /\ call.tags = <<<<" ", "required", ",", ",", ",", " ", " ", "uuid", " ", " ">>>>
    /\ ~IsCanonical(call)
    /\ call.log.bound = <<[tag |-> tRequired, c |-> required],
                          [tag |-> tUuid, c |-> uuid]>>
    /\ call.err = NoErr

(***************************************************************************)
(* Malformed segments.  A segment that holds the argument separator is     *)
(* malformed when it has no name, no argument, more than one separator,    *)
(* or a name no maker is registered under.                                 *)
(***************************************************************************)
MalformedParts(parts, c) ==
    \/ Len(parts) # 2
    \/ parts[1] = <<>>
    \/ parts[2] = <<>>
    \/ parts[1] \notin DOMAIN c.pre.checkerMakers

Malformed(seg, c) ==
    /\ Contains(seg, c.pre.CheckArgSep)
    /\ MalformedParts(Split(seg, c.pre.CheckArgSep), c)

\* the malformed segments that parse comes to in a visit the walk reaches:
\* every segment before them names a registered checker
OffendingIn(i, c) ==
    {k \in 1..Len(Segments(CallVisits[i].tag, c.pre.CheckSep)) :
        /\ Malformed(Segments(CallVisits[i].tag, c.pre.CheckSep)[k], c)
        /\ \A h \in 1..(k - 1) :
              Segments(CallVisits[i].tag, c.pre.CheckSep)[h] \in DOMAIN c.pre.checkers}

Offending(c) ==
    UNION {{<<i, k>> : k \in OffendingIn(i, c)} :
           i \in {j \in 1..Len(CallVisits) :
                     /\ ~CallVisits[j].private
                     /\ \A h \in 1..(j - 1) : h \notin Failing}}

OffendingSeg(o, c) == Segments(CallVisits[o[1]].tag, c.pre.CheckSep)[o[2]]

Rejected(o, c) ==
    c.err = Scoped(CallVisits[o[1]].scope, InvalidChecker(OffendingSeg(o, c), NoErr))

(***************************************************************************)
(* C7 as stated.  In every state of the registry a malformed segment that  *)
(* parse comes to makes Validate return ErrInvalidChecker with the text    *)
(* of that segment.                                                        *)
(***************************************************************************)
C7_AnyRegistry ==
    call.op = "Validate" => \A o \in Offending(call) : Rejected(o, call)

(***************************************************************************)
(* C7.  A malformed segment that parse comes to makes Validate return      *)
(* ErrInvalidChecker with the text of that segment, in every state of the  *)
(* registry in which no checker is registered under the text of the        *)
(* segment itself: a segment that names a registered checker is bound to   *)
(* it before its form is looked at.                                        *)
(***************************************************************************)
C7_Malformed ==
    call.op = "Validate" =>
        \A o \in Offending(call) :
            OffendingSeg(o, call) \notin DOMAIN call.pre.checkers => Rejected(o, call)

\* foo:bar:baz is rejected although a maker is registered under foo
C7_Witness ==
    /\ call.op = "Validate"
    /\ <<"foo">> \in DOMAIN call.pre.checkerMakers
    /\ call.tags = <<<<"foo", ":", "bar", ":", "baz">>>>
    /\ Offending(call) # {}
    /\ call.err = InvalidChecker(<<"foo", ":", "bar", ":", "baz">>, NoErr)

(***************************************************************************)
(* C8.  After RegisterChecker(name, c) every later parse of a segment      *)
(* equal to name binds c, until the next RegisterChecker under that name:  *)
(* the last registration wins, also over the checker that New registered   *)
(* under the name.                                                         *)
(***************************************************************************)
C8_LastRegistrationWins ==
    call.op = "Validate" =>
        \A k \in 1..Len(call.log.bound) :
            call.log.bound[k].tag \in DOMAIN registered =>
                call.log.bound[k].c = registered[call.log.bound[k].tag]

\* required was registered again: the segment binds the caller's checker,
\* which rejects a value the built-in accepts
C8_Witness ==
    /\ call.op = "Validate"
    /\ registered[tRequired] = Custom("fail")
    /\ call.val = StrV("foo")
    /\ call.log.bound = <<[tag |-> tRequired, c |-> Custom("fail")]>>
    /\ call.err = CheckFailed(tRequired, Apply(Custom("fail"), StrV("foo")))

(***************************************************************************)
(* Makers.  MakersCalled(made, tag) are the makers that a call invoked     *)
(* for the text tag.                                                       *)
(***************************************************************************)
MakersCalled(made, tag) ==
    {made[h].maker : h \in {j \in 1..Len(made) : made[j].tag = tag}}

MakerOf(tag, c) == c.pre.checkerMakers[Split(tag, c.pre.CheckArgSep)[1]]

ArgOf(tag, c) == Split(tag, c.pre.CheckArgSep)[2]

(***************************************************************************)
(* C9.  A checker that parse cached under a text T survives the            *)
(* replacement of its maker: a later parse of T binds the cached checker   *)
(* and invokes no maker for T, whatever maker is registered by then; a     *)
(* text that is bound and that was not in the registry when the call       *)
(* began is built by the maker registered at that time, which is invoked   *)
(* for it.                                                                 *)
(***************************************************************************)
C9_CacheSurvives ==
    call.op = "Validate" =>
        \A k \in 1..Len(call.log.bound) :
            IF call.log.bound[k].tag \in DOMAIN call.cached
            THEN /\ call.log.bound[k].c = call.cached[call.log.bound[k].tag]
                 /\ MakersCalled(call.log.made, call.log.bound[k].tag) = {}
            ELSE call.log.bound[k].tag \notin DOMAIN call.pre.checkers =>
                    /\ MakersCalled(call.log.made, call.log.bound[k].tag) =
                          {MakerOf(call.log.bound[k].tag, call)}
                    /\ call.log.bound[k].c =
                          Make(MakerOf(call.log.bound[k].tag, call),
                               ArgOf(call.log.bound[k].tag, call)).c

\* min:3 was cached by Min; after m2 is registered under min, min:3 still
\* binds the checker of Min and min:5 is built by m2
C9_Witness ==
    /\ call.op = "Validate"
    /\ call.pre.checkerMakers[<<"min">>] = "m2"
    /\ call.tags = <<Arg("min", "3"), Arg("min", "5")>>
    /\ Arg("min", "3") \in DOMAIN call.cached
    /\ call.log.bound = <<[tag |-> Arg("min", "3"), c |-> SizeChecker(<<"3">>, expMore)],
                          [tag |-> Arg("min", "5"), c |-> Made("m2", <<"5">>)]>>
    /\ call.log.made = <<[maker |-> "m2", tag |-> Arg("min", "5")]>>

(***************************************************************************)
(* Maker invocations of the concurrent program.                            *)
(***************************************************************************)
InvokedFor(tag) == {k \in 1..Len(hist.invoked) : hist.invoked[k].tag = tag}

\* the goroutine is past a lookup that found no checker, on its way to the
\* maker or to the cache
TowardsMaker(t) == thr[t].pc \in {"rlock2", "read2", "make", "lock", "wait", "write"}

(***************************************************************************)
(* C10 as stated.  Over any interleaving of calls on one Validator a       *)
(* maker is invoked at most once for each text.                            *)
(***************************************************************************)
C10_AtMostOnce ==
    \A j, k \in 1..Len(hist.invoked) :
        hist.invoked[j].tag = hist.invoked[k].tag => j = k

(***************************************************************************)
(* C10.  A maker is invoked lazily, by a parse whose lookup of the text    *)
(* found no checker, and at most once for a text within one call: once     *)
(* parse has cached a checker under a text, every later lookup of the      *)
(* text binds a checker of the registry and calls no maker.  (Calls that   *)
(* look a text up before any of them has cached it each invoke the maker,  *)
(* and so does every call for a text whose maker answers an error.)        *)
(***************************************************************************)
C10_LazyOnMiss ==
    /\ \A k \in 1..Len(hist.invoked) : ~hist.invoked[k].late
    /\ \A t \in Threads :
          (thr[t].op = "Validate" /\ thr[t].late) => ~TowardsMaker(t)
    /\ \A j, k \in 1..Len(hist.invoked) :
          (/\ hist.invoked[j].t = hist.invoked[k].t
           /\ hist.invoked[j].n = hist.invoked[k].n
           /\ hist.invoked[j].tag = hist.invoked[k].tag) => j = k

\* a call that looked min:3 up after it was cached has bound it and
\* passed; the maker was invoked once for the text
C10_Witness ==
    \E t \in Threads :
        /\ thr[t].pc = "idle"
        /\ thr[t].op = "Validate"
        /\ thr[t].late
        /\ thr[t].tag = Arg("min", "3")
        /\ thr[t].err = NoErr
        /\ Cardinality(InvokedFor(Arg("min", "3"))) = 1

(***************************************************************************)
(* Accesses of the two maps.  A goroutine at read1 or read2 is about to    *)
(* read v.checkers or v.checkerMakers, one at write is about to assign to  *)
(* one of them.                                                            *)
(***************************************************************************)
Reading == {t \in Threads : thr[t].pc \in {"read1", "read2"}}

Writing == {t \in Threads : thr[t].pc = "write"}

(***************************************************************************)
(* C11.  In every reachable state at most one goroutine is writing         *)
(* v.checkers or v.checkerMakers, no goroutine is reading either map       *)
(* while one writes, every reader holds the read lock and the writer, the  *)
(* caching write of parse included, holds the write lock.                  *)
(***************************************************************************)
C11_MutualExclusion ==
    /\ Cardinality(Writing) <= 1
    /\ Writing # {} => Reading = {}
    /\ \A t \in Reading : t \in mu.readers /\ mu.writer = NoThread
    /\ \A t \in Writing : mu.writer = t /\ mu.readers = {}
    /\ mu.readers \subseteq Reading
    /\ mu.writer # NoThread => mu.writer \in Writing

\* parse is caching a checker under the write lock while the other
\* goroutine stands before a lookup
C11_Witness ==
    \E t, u \in Threads :
        /\ thr[t].pc = "write"
        /\ thr[t].op = "Validate"
        /\ mu.writer = t
        /\ thr[u].pc \in {"rlock1", "rlock2"}

(***************************************************************************)
(* Calls of Validate alone.  NoExplicit says that no RegisterChecker and   *)
(* no RegisterCheckerMaker has written so far; Fresh(T) is the checker     *)
(* that a new Validator builds for the text T.                             *)
(***************************************************************************)
NoExplicit ==
    /\ registered = New.checkers
    /\ v.checkerMakers = New.checkerMakers

Fresh(tag) ==
    Make(New.checkerMakers[Split(tag, New.CheckArgSep)[1]],
         Split(tag, New.CheckArgSep)[2]).c

Finished == {t \in Threads : thr[t].pc = "idle" /\ thr[t].op = "Validate"}

(***************************************************************************)
(* C12.  While only Validate calls have run on a Validator, in any         *)
(* interleaving, a call that has returned answered the error that the      *)
(* same call answers alone on a new Validator, whether its checkers were   *)
(* built for it or bound from the cache; and once all calls have returned, *)
(* v.checkers holds the checkers of New and, under each text that parse    *)
(* cached, the one checker its maker builds for that text.                 *)
(***************************************************************************)
C12_CacheUnobservable ==
    NoExplicit =>
        /\ \A t \in Finished :
              thr[t].err = Validate(New, thr[t].val, thr[t].tags).err
        /\ (\A t \in Threads : thr[t].pc = "idle") =>
              /\ DOMAIN v.checkers = DOMAIN New.checkers \cup hist.materialized
              /\ \A x \in DOMAIN New.checkers : v.checkers[x] = New.checkers[x]
              /\ \A x \in hist.materialized : v.checkers[x] = Fresh(x)

\* both goroutines built min:5 for themselves, one write replaced the
\* other, and both calls answered the same failure
C12_Witness ==
    /\ NoExplicit
    /\ Finished = Threads
    /\ \A t \in Threads :
          /\ thr[t].tags = <<Arg("min", "5")>>
          /\ thr[t].err.kind = "ErrCheckFailed"
          /\ thr[t].n = 1
    /\ Cardinality(InvokedFor(Arg("min", "5"))) = 2
    /\ v.checkers[Arg("min", "5")] = Fresh(Arg("min", "5"))

(***************************************************************************)
(* Paths.  FieldAt(val, path) is the field that the names of path lead     *)
(* to, from the fields of val down, through references; NoField when the   *)
(* names lead nowhere.                                                     *)
(***************************************************************************)
NoField == Field("", FALSE, <<>>, Invalid)

RECURSIVE FieldAt(_, _)
FieldAt(val, path) ==
    IF path = <<>> \/ Deref(val).kind # "Struct" THEN NoField
    ELSE IF \A i \in 1..Len(Deref(val).fields) : Deref(val).fields[i].name # Head(path)
    THEN NoField
    ELSE IF Len(path) = 1
    THEN Deref(val).fields[CHOOSE i \in 1..Len(Deref(val).fields) :
                              Deref(val).fields[i].name = Head(path)]
    ELSE FieldAt(Deref(val).fields[CHOOSE i \in 1..Len(Deref(val).fields) :
                                      Deref(val).fields[i].name = Head(path)].val,
                 Tail(path))

\* the error that the field yields by itself, under no scope
FieldErr(f, c) ==
    IF ~f.exported THEN PrivateField(<<>>)
    ELSE validateScalar(c.pre, Deref(f.val), TrimSpace(f.tag), <<>>, EmptyLog).err

\* the error of the checks given to Validate, on the value itself
TopErr(c) ==
    IF Join(c.tags, c.pre.CheckSep) = <<>> THEN NoErr
    ELSE validateScalar(c.pre, Deref(c.val), Join(c.tags, c.pre.CheckSep), <<>>,
                        EmptyLog).err

\* err is the error of the field at its scope, with the scope put in
ScopedToField(err, val, c) ==
    /\ err.scope # <<>>
    /\ FieldAt(val, err.scope) # NoField
    /\ err = Scoped(err.scope, FieldErr(FieldAt(val, err.scope), c))

(***************************************************************************)
(* C13.  An error of the checks given to Validate itself carries no scope. *)
(* Any other error carries as scope the names of the fields from the       *)
(* outermost record down to the field that failed, in descent order,       *)
(* references adding nothing to it, and is otherwise the error that the    *)
(* field yields on its own: the callers on the way up pass it on           *)
(* unchanged.                                                              *)
(***************************************************************************)
C13_ScopePath ==
    (call.op = "Validate" /\ call.err.kind \notin {"nil", "panic"}) =>
        IF TopErr(call) # NoErr
        THEN call.err = TopErr(call) /\ call.err.scope = <<>>
        ELSE ScopedToField(call.err, call.val, call)

\* F sits in the record In, both behind references: the scope is In.F
C13_Witness ==
    /\ call.op = "Validate"
    /\ call.err = Scoped(<<"In", "F">>, CheckFailed(tRequired, ErrRequired))
    /\ Depth(FieldAt(call.val, <<"In">>).val) >= 1
    /\ Depth(FieldAt(call.val, <<"In", "F">>).val) >= 1
    /\ TopErr(call) = NoErr

(***************************************************************************)
(* Absent values.  FillNil(val, z) is val with z in the place of every    *)
(* nil reference, the references that lead to it kept; NilFields(val) says *)
(* that some field of the record val holds a nil reference, at any depth.  *)
(***************************************************************************)
RECURSIVE FillNil(_, _)
FillNil(val, z) ==
    CASE val.kind = "Ptr" -> (IF val.nil THEN z ELSE Ptr(FillNil(val.elem, z)))
      [] val.kind = "Struct" ->
            [val EXCEPT !.fields =
                [i \in DOMAIN val.fields |->
                    [val.fields[i] EXCEPT !.val = FillNil(val.fields[i].val, z)]]]
      [] OTHER -> val

RECURSIVE HasNil(_)
HasNil(val) ==
    CASE val.kind = "Ptr" -> (IF val.nil THEN TRUE ELSE HasNil(val.elem))
      [] val.kind = "Struct" ->
            \E i \in 1..Len(val.fields) : HasNil(val.fields[i].val)
      [] OTHER -> FALSE

NilFields(val) == Deref(val).kind = "Struct" /\ HasNil(Deref(val))

SameAsZero(c) ==
    \A z \in ZeroScalars : Validate(c.pre, FillNil(c.val, z), c.tags).err = c.err

\* of the checks of the absent fields, required alone is exempted from
\* skipping, and required is the built-in check
OnlyRequiredExempt(c) ==
    /\ tRequired \in DOMAIN c.pre.checkers => c.pre.checkers[tRequired] = required
    /\ \A i \in 1..Len(CallVisits) :
          (~CallVisits[i].private /\ CallVisits[i].val = Invalid) =>
             \A k \in 1..Len(Names(CallVisits[i], c)) :
                IsExempt(c, Names(CallVisits[i], c)[k]) =>
                   Names(CallVisits[i], c)[k] = tRequired

(***************************************************************************)
(* C14 as stated.  For every check list, Validate answers the same for a   *)
(* record whose field holds a nil reference, at any depth, and for the     *)
(* record with a zero value of a scalar type in that field.                *)
(***************************************************************************)
C14_AbsentIsZero ==
    (call.op = "Validate" /\ NilFields(call.val)) => SameAsZero(call)

(***************************************************************************)
(* C14.  Validate answers the same for a record whose field holds a nil    *)
(* reference, at any depth, and for the record with a zero value of a      *)
(* scalar type in that field, when of the checks of that field the         *)
(* built-in required alone is exempted from skipping.  A check that is     *)
(* exempted sees the absent value itself: the size checks, which New       *)
(* exempts, pass on it where they compare the zero value.                  *)
(***************************************************************************)
C14_AbsentIsZeroUnlessExempt ==
    (call.op = "Validate" /\ NilFields(call.val) /\ OnlyRequiredExempt(call))
        => SameAsZero(call)

\* a nil reference behind two references, under required
C14_Witness ==
    /\ call.op = "Validate"
    /\ call.pre.DontSkipZeroChecks = DefaultDontSkipZero
    /\ call.val = Struct(<<Pub("F", tRequired, Wrap(NilPtr, 2))>>)
    /\ OnlyRequiredExempt(call)
    /\ call.err = Scoped(<<"F">>, CheckFailed(tRequired, ErrRequired))
    /\ SameAsZero(call)

(***************************************************************************)
(* Size checks.  SizeOnly(e, c) says that the check list of visit e is     *)
(* made of eq, ne, min and max alone, each with a numeral for argument and *)
(* bound to the checker that the built-in maker builds.                    *)
(***************************************************************************)
SizeNames == {<<"eq">>, <<"ne">>, <<"min">>, <<"max">>}

IsSizeSegment(seg, c) ==
    /\ Len(Split(seg, c.pre.CheckArgSep)) = 2
    /\ Split(seg, c.pre.CheckArgSep)[1] \in SizeNames
    /\ IsNumeral(Split(seg, c.pre.CheckArgSep)[2])
    /\ Split(seg, c.pre.CheckArgSep)[1] \in DOMAIN c.pre.checkerMakers
    /\ c.pre.checkerMakers[Split(seg, c.pre.CheckArgSep)[1]] =
          New.checkerMakers[Split(seg, c.pre.CheckArgSep)[1]]
    /\ seg \in DOMAIN c.pre.checkers =>
          c.pre.checkers[seg] =
             Make(New.checkerMakers[Split(seg, c.pre.CheckArgSep)[1]],
                  Split(seg, c.pre.CheckArgSep)[2]).c

SizeOnly(e, c) ==
    /\ Segments(e.tag, c.pre.CheckSep) # <<>>
    /\ \A k \in 1..Len(Segments(e.tag, c.pre.CheckSep)) :
          IsSizeSegment(Segments(e.tag, c.pre.CheckSep)[k], c)

\* the visits of the last call to a nil reference under size checks alone
AbsentSized ==
    {i \in 1..Len(CallVisits) :
        /\ ~CallVisits[i].private
        /\ CallVisits[i].val = Invalid
        /\ SizeOnly(CallVisits[i], call)}

(***************************************************************************)
(* C15.  A field that holds a nil reference passes eq, ne, min and max     *)
(* with any numeral for argument, whether the checks are exempted from     *)
(* skipping or not: the visit yields no error, and a record made of such   *)
(* a field alone validates without error (a nil reference under            *)
(* `min:3,max:5`).                                                         *)
(***************************************************************************)
C15_AbsentPassesSize ==
    call.op = "Validate" =>
        \A i \in AbsentSized :
            /\ i \notin Failing
            /\ Len(CallVisits) = 1 => call.err = NoErr

\* min:3,max:5 on a nil reference: both checks are run and pass
C15_Witness ==
    /\ call.op = "Validate"
    /\ call.val = Struct(<<Pub("F", And(Arg("min", "3"), Arg("max", "5")), NilPtr)>>)
    /\ AbsentSized = {1}
    /\ Len(call.log.ran) = 2
    /\ call.err = NoErr

(***************************************************************************)
(* The frame of a call.  Added(c, w) are the texts under which the         *)
(* Validator w holds a checker and the Validator before call c held none;  *)
(* WellFormed(k, w) says that text k is a maker name, the argument         *)
(* separator and an argument, both non-empty, the maker being registered.  *)
(***************************************************************************)
Added(c, w) == DOMAIN w.checkers \ DOMAIN c.pre.checkers

WellFormed(k, w) ==
    /\ Len(Split(k, w.CheckArgSep)) = 2
    /\ Split(k, w.CheckArgSep)[1] # <<>>
    /\ Split(k, w.CheckArgSep)[2] # <<>>
    /\ Split(k, w.CheckArgSep)[1] \in DOMAIN w.checkerMakers

\* the texts that the maker was called for during the call
MadeTexts(c) == {c.log.made[j].tag : j \in 1..Len(c.log.made)}

(***************************************************************************)
(* C16.  A Validate call leaves the maker mapping, the two separators, the *)
(* skip-exemption set and the private-field policy of the Validator as     *)
(* they were (the record is an argument that the call only reads).  In the *)
(* checker mapping every entry that was there is still there with the same *)
(* checker, and every new entry sits under a well-formed maker-separator-  *)
(* argument text that the call looked up, found absent and had the maker   *)
(* build.                                                                  *)
(***************************************************************************)
C16_Frame ==
    call.op = "Validate" =>
        /\ v.checkerMakers = call.pre.checkerMakers
        /\ v.CheckSep = call.pre.CheckSep
        /\ v.CheckArgSep = call.pre.CheckArgSep
        /\ v.DontSkipZeroChecks = call.pre.DontSkipZeroChecks
        /\ v.ErrorOnPrivate = call.pre.ErrorOnPrivate
        /\ DOMAIN call.pre.checkers \subseteq DOMAIN v.checkers
        /\ \A k \in DOMAIN call.pre.checkers : v.checkers[k] = call.pre.checkers[k]
        /\ \A k \in Added(call, v) :
              /\ WellFormed(k, v)
              /\ k \in MadeTexts(call)
              /\ v.checkers[k] =
                    Make(v.checkerMakers[Split(k, v.CheckArgSep)[1]],
                         Split(k, v.CheckArgSep)[2]).c

\* min:3 was cached by an earlier call; this call binds it and adds min:5
C16_Witness ==
    /\ call.op = "Validate"
    /\ Arg("min", "3") \in DOMAIN call.pre.checkers
    /\ Added(call, v) = {Arg("min", "5")}
    /\ Len(call.log.bound) = 2

(***************************************************************************)
(* Work.  SegsUpTo(n) are the segments of the check lists of the first n   *)
(* visits of the last call, in order; BoundTags the segments that parse    *)
(* bound during the call, in order; NumFields(val) the number of fields of *)
(* val, those of the records it holds included.                            *)
(***************************************************************************)
SegsOf(e) == IF e.private THEN <<>> ELSE Segments(e.tag, call.pre.CheckSep)

RECURSIVE SegsUpTo(_)
SegsUpTo(n) == IF n = 0 THEN <<>> ELSE SegsUpTo(n - 1) \o SegsOf(CallVisits[n])

BoundTags == [j \in 1..Len(call.log.bound) |-> call.log.bound[j].tag]

RECURSIVE NumFields(_)
RECURSIVE NumFieldsFrom(_, _)
NumFields(val) ==
    IF Deref(val).kind = "Struct" THEN NumFieldsFrom(Deref(val), 1) ELSE 0

NumFieldsFrom(val, i) ==
    IF i > Len(val.fields) THEN 0
    ELSE 1 + NumFields(val.fields[i].val) + NumFieldsFrom(val, i + 1)

\* the visit that the j-th check of the call was run in
VisitOf(j) ==
    CHOOSE i \in 1..Len(CallVisits) : CallVisits[i].scope = call.log.ran[j].scope

TopTag(c) == Join(c.tags, c.pre.CheckSep)

TopRun(c) == validateScalar(c.pre, Deref(c.val), TopTag(c), <<>>, EmptyLog)

FieldsRun(c) == Validate(TopRun(c).v, c.val, <<>>)

(***************************************************************************)
(* C18.  The checks given to Validate are joined with CheckSep and run on  *)
(* the value itself, references removed, before any field.  When they      *)
(* fail, the call ends with their error, which has no scope, and no field  *)
(* is parsed or checked.  When they pass, the fields of a record are       *)
(* walked as without explicit checks: the answer is that of the walk, and  *)
(* the work of the call is that of the explicit checks followed by that of *)
(* the walk.                                                               *)
(***************************************************************************)
C18_TopChecksFirst ==
    (call.op = "Validate" /\ TopTag(call) # <<>>) =>
        IF TopRun(call).err # NoErr
        THEN /\ call.err = TopRun(call).err
             /\ call.err.kind # "panic" => call.err.scope = <<>>
             /\ call.log = TopRun(call).log
             /\ \A j \in 1..Len(call.log.ran) : call.log.ran[j].scope = <<>>
        ELSE /\ call.err = FieldsRun(call).err
             /\ call.log.ran = TopRun(call).log.ran \o FieldsRun(call).log.ran
             /\ call.log.bound = TopRun(call).log.bound \o FieldsRun(call).log.bound

\* two explicit checks pass on a record behind a reference; field B fails
C18_Witness ==
    /\ call.op = "Validate"
    /\ call.tags = <<tRequired, tRequired>>
    /\ Depth(call.val) = 1
    /\ Deref(call.val).kind = "Struct"
    /\ TopRun(call).err = NoErr
    /\ Len(TopRun(call).log.ran) = 2
    /\ call.err = Scoped(<<"B">>, CheckFailed(tUuid, Apply(uuid, StrV("foo"))))

(***************************************************************************)
(* Checksums, as they are defined.  Digits are the ten digits and DigitOf  *)
(* their values; Cleaned(s, drop) is s without the characters of drop.     *)
(***************************************************************************)
Digits == {"0", "1", "2", "3", "4", "5", "6", "7", "8", "9"}

DigitOf ==
    [d \in Digits |-> CHOOSE n \in 0..9 :
        <<"0", "1", "2", "3", "4", "5", "6", "7", "8", "9">>[n + 1] = d]

RECURSIVE Cleaned(_, _)
Cleaned(s, drop) ==
    IF s = <<>> THEN <<>>
    ELSE (IF Head(s) \in drop THEN <<>> ELSE <<Head(s)>>) \o Cleaned(Tail(s), drop)

AllDigits(s) == \A i \in 1..Len(s) : s[i] \in Digits

\* the k-th digit from the right (the rightmost is the first) as it counts:
\* every second one doubled, less 9 when that exceeds 9
LuhnTerm(s, k) ==
    IF k % 2 = 1 THEN DigitOf[s[Len(s) + 1 - k]]
    ELSE IF 2 * DigitOf[s[Len(s) + 1 - k]] > 9
    THEN 2 * DigitOf[s[Len(s) + 1 - k]] - 9
    ELSE 2 * DigitOf[s[Len(s) + 1 - k]]

RECURSIVE LuhnSum(_, _)
LuhnSum(s, k) == IF k = 0 THEN 0 ELSE LuhnTerm(s, k) + LuhnSum(s, k - 1)

LuhnValid(s) == s # <<>> /\ AllDigits(s) /\ LuhnSum(s, Len(s)) % 10 = 0

(***************************************************************************)
(* C19.  luhn accepts a text exactly when the text without its spaces and  *)
(* dashes is not empty, is made of digits alone, and the sum of its        *)
(* digits, taken from the right with every second one (from the second     *)
(* from the right) doubled and less 9 when the double exceeds 9, is a      *)
(* multiple of 10.                                                         *)
(***************************************************************************)
C19_Luhn ==
    call.op = "luhn" =>
        (call.err = NoErr <=> LuhnValid(Cleaned(call.val, {" ", "-"})))

\* 5-9: the doubled 5 counts 1, with the 9 that makes 10
C19_Witness ==
    /\ call.op = "luhn"
    /\ call.val = <<"5", "-", "9">>
    /\ LuhnSum(<<"5", "9">>, 2) = 10
    /\ call.err = NoErr

\* the weighted sum of the first nine characters, position i from 0
RECURSIVE Isbn10Sum(_, _)
Isbn10Sum(s, i) ==
    IF i > 8 THEN 0 ELSE DigitOf[s[i + 1]] * (10 - i) + Isbn10Sum(s, i + 1)

Isbn10Valid(s) ==
    /\ AllDigits(SubSeq(s, 1, 9))
    /\ s[10] \in Digits \cup {"X", "x"}
    /\ (Isbn10Sum(s, 0) + (IF s[10] \in {"X", "x"} THEN 10 ELSE DigitOf[s[10]]))
          % 11 = 0

(***************************************************************************)
(* C20.  For a text that has 10 characters once its dashes are removed,    *)
(* isbn accepts it exactly when the first nine are digits, the tenth is a  *)
(* digit or X or x, worth 10, and the sum of the first nine, the digit at  *)
(* position i (from 0) taken 10 - i times, plus the value of the tenth is  *)
(* a multiple of 11.                                                       *)
(***************************************************************************)
C20_Isbn10 ==
    (call.op = "isbn" /\ Len(Cleaned(call.val, {"-"})) = 10) =>
        (call.err = NoErr <=> Isbn10Valid(Cleaned(call.val, {"-"})))

\* 0-8044-2957-x with the small x for last character
C20_Witness ==
    /\ call.op = "isbn"
    /\ call.val = <<"0", "8", "0", "4", "4", "2", "9", "5", "7", "x">>
    /\ call.err = NoErr

\* the weighted sum of the first twelve characters, position i from 0
RECURSIVE Isbn13Sum(_, _)
Isbn13Sum(s, i) ==
    IF i > 11 THEN 0
    ELSE (IF i \in {0, 2, 4, 6, 8, 10} THEN 1 ELSE 3) * DigitOf[s[i + 1]]
         + Isbn13Sum(s, i + 1)

Isbn13Valid(s) ==
    /\ AllDigits(s)
    /\ DigitOf[s[13]] = (10 - (Isbn13Sum(s, 0) % 10)) % 10

(***************************************************************************)
(* C21.  For a text that has 13 characters once its dashes are removed,    *)
(* isbn accepts it exactly when all 13 are digits and the last equals      *)
(* (10 - (s mod 10)) mod 10, s being the sum of the first twelve with      *)
(* weight 1 at the even positions (from 0) and 3 at the odd ones.  A text  *)
(* that has neither 10 nor 13 characters once its dashes are removed is    *)
(* rejected.                                                               *)
(***************************************************************************)
C21_Isbn13 ==
    call.op = "isbn" =>
        /\ Len(Cleaned(call.val, {"-"})) = 13 =>
              (call.err = NoErr <=> Isbn13Valid(Cleaned(call.val, {"-"})))
        /\ Len(Cleaned(call.val, {"-"})) \notin {10, 13} => call.err # NoErr

\* 978-3-16-148410-0: the sum is a multiple of 10 and the last digit 0
C21_Witness ==
    /\ call.op = "isbn"
    /\ call.val = <<"9", "7", "8", "-", "3", "-", "1", "6", "-", "1", "4", "8",
                    "4", "1", "0", "-", "0">>
    /\ Isbn13Sum(Cleaned(call.val, {"-"}), 0) % 10 = 0
    /\ call.err = NoErr

NpiValid(s) ==
    /\ Len(s) = 10
    /\ AllDigits(s)
    /\ LuhnValid(<<"8", "0", "8", "4", "0">> \o s)

(***************************************************************************)
(* C22.  npi accepts a text exactly when it is made of 10 digits and the   *)
(* 15 digits that 80840 and the text make together are valid for Luhn.     *)
(***************************************************************************)
C22_Npi ==
    call.op = "npi" => (call.err = NoErr <=> NpiValid(call.val))

\* 1234567893 is accepted, and would not be without the 80840 in front
C22_Witness ==
    /\ call.op = "npi"
    /\ call.val = <<"1", "2", "3", "4", "5", "6", "7", "8", "9", "3">>
    /\ ~LuhnValid(call.val)
    /\ call.err = NoErr

(***************************************************************************)
(* Sizes.  SizeOf(val) is the number an integer is, or the length of a     *)
(* string or of a slice (0 for the nil slice); Rel(name, a, n) what the    *)
(* size check of that name asks of a against n.  SizeCall says that the    *)
(* last call is one visit of such a value under one size check with a      *)
(* numeral for argument, the check being exempted from skipping as New     *)
(* has it.                                                                 *)
(***************************************************************************)
SizeOf(val) ==
    CASE val.kind \in {"Int", "Uint"} -> val.n
      [] val.kind = "String" -> StrLen[val.s]
      [] val.kind = "Slice" -> val.len

Rel(name, a, n) ==
    CASE name = <<"eq">>  -> a = n
      [] name = <<"ne">>  -> a # n
      [] name = <<"min">> -> a >= n
      [] name = <<"max">> -> a <= n

SizeCall ==
    /\ call.op = "Validate"
    /\ Len(CallVisits) = 1
    /\ ~CallVisits[1].private
    /\ CallVisits[1].val.kind \in {"Int", "Uint", "String", "Slice"}
    /\ Len(Segments(CallVisits[1].tag, call.pre.CheckSep)) = 1
    /\ SizeOnly(CallVisits[1], call)
    /\ IsExempt(call, Names(CallVisits[1], call)[1])

SizeName == Names(CallVisits[1], call)[1]

SizeArg ==
    NumVal[Split(Segments(CallVisits[1].tag, call.pre.CheckSep)[1],
                 call.pre.CheckArgSep)[2][1]]

TaggedWith(T) ==
    /\ call.op = "Validate"
    /\ Len(CallVisits) = 1
    /\ ~CallVisits[1].private
    /\ CallVisits[1].tag \in T
    /\ CallVisits[1].val = StrV("foo")

Uncached ==
    \A k \in 1..Len(Segments(CallVisits[1].tag, call.pre.CheckSep)) :
        Segments(CallVisits[1].tag, call.pre.CheckSep)[k]
            \notin DOMAIN call.pre.checkers \ DOMAIN New.checkers

SepsAre(w, cs, as) == w.CheckSep = cs /\ w.CheckArgSep = as

(***************************************************************************)
(* C24.  Each Validate call cuts the check list with the CheckSep and      *)
(* CheckArgSep that the Validator holds at that call.  The list            *)
(* `required    min=3` is rejected as an invalid checker while the         *)
(* separators are not " " and "=", New's defaults among them, and          *)
(* validates on the same Validator once they are; the list                 *)
(* `required,min:3` validates under the defaults and is rejected under     *)
(* others.  (Rejected, that is, unless an earlier call under other         *)
(* separators cached a checker under a segment of the list.)               *)
(***************************************************************************)
C24_SeparatorsPerCall ==
    /\ TaggedWith(SpacedTags) =>
          IF SepsAre(call.pre, " ", "=") THEN call.err = NoErr
          ELSE Uncached => call.err.kind = "ErrInvalidChecker"
    /\ TaggedWith(DefaultTags) =>
          IF SepsAre(call.pre, ",", ":") THEN call.err = NoErr
          ELSE Uncached => call.err.kind = "ErrInvalidChecker"

\* the third operation on the Validator: the field validates with the
\* separators set to " " and "=", and min=3 is cached
C24_Witness ==
    /\ TaggedWith(SpacedTags)
    /\ call.val.kind = "Struct"
    /\ nops = 3
    /\ SepsAre(call.pre, " ", "=")
    /\ Added(call, v) = {<<"min", "=", "3">>}
    /\ Len(call.log.ran) = 2
    /\ call.err = NoErr

(***************************************************************************)
(* Parsing before running.  A segment cannot be bound by a Validator w     *)
(* when w holds no checker under its text and no maker builds one from     *)
(* it: it does not split on CheckArgSep into a maker name and an           *)
(* argument, the maker is not registered, or the maker returns an error.   *)
(***************************************************************************)
Unbound(seg, w) ==
    /\ seg \notin DOMAIN w.checkers
    /\ \/ ~WellFormed(seg, w)
       \/ Make(w.checkerMakers[Split(seg, w.CheckArgSep)[1]],
               Split(seg, w.CheckArgSep)[2]).err # NoErr

UnboundIn(e, w) ==
    {k \in 1..Len(Segments(e.tag, w.CheckSep)) :
        Unbound(Segments(e.tag, w.CheckSep)[k], w)}

\* the checks of the segments before the k-th of the list, alone
Before(e, w, k) ==
    validateScalar(w, e.val,
                   Join(SubSeq(Segments(e.tag, w.CheckSep), 1, k - 1), w.CheckSep),
                   e.scope, EmptyLog)

(***************************************************************************)
(* C25.  When a segment of a check list cannot be bound, the answer for    *)
(* the value is ErrInvalidChecker naming the first such segment, under     *)
(* the scope of the field, and no check of the list has run, whether or    *)
(* not the checks written before that segment would fail on the value      *)
(* (an empty string under `required,bogus:3,uuid` reports bogus:3, not     *)
(* the missing value).  Stated for the calls that visit one value.         *)
(***************************************************************************)
C25_ParsedBeforeRun ==
    (/\ call.op = "Validate"
     /\ Len(CallVisits) = 1
     /\ ~CallVisits[1].private
     /\ UnboundIn(CallVisits[1], call.pre) # {})
    => /\ call.err.kind = "ErrInvalidChecker"
       /\ call.err.name =
              Segments(CallVisits[1].tag, call.pre.CheckSep)
                  [Min(UnboundIn(CallVisits[1], call.pre))]
       /\ call.err.scope = CallVisits[1].scope
       /\ call.log.ran = <<>>

\* the empty string under required, bogus:3, uuid: required alone reports
\* the missing value, the list reports the segment bogus:3
C25_Witness ==
    /\ call.op = "Validate"
    /\ call.val = StrV("")
    /\ call.tags = <<tRequired, Arg("bogus", "3"), tUuid>>
    /\ UnboundIn(CallVisits[1], call.pre) = {2}
    /\ Before(CallVisits[1], call.pre, 2).err = CheckFailed(tRequired, ErrRequired)
    /\ call.err = InvalidChecker(Arg("bogus", "3"), NoErr)
    /\ call.log.ran = <<>>

(***************************************************************************)
(* Size checks with an argument that is no number.  BadArgCall says that   *)
(* the last call visits one value under one segment that CheckArgSep       *)
(* cuts into eq, ne, min or max, bound to New's maker, and an argument     *)
(* that is not a numeral.                                                  *)
(***************************************************************************)
BadSeg == Segments(CallVisits[1].tag, call.pre.CheckSep)[1]

BadName == Split(BadSeg, call.pre.CheckArgSep)[1]

BadArg == Split(BadSeg, call.pre.CheckArgSep)[2]

BadArgCall ==
    /\ call.op = "Validate"
    /\ Len(CallVisits) = 1
    /\ ~CallVisits[1].private
    /\ Len(Segments(CallVisits[1].tag, call.pre.CheckSep)) = 1
    /\ Len(Split(BadSeg, call.pre.CheckArgSep)) = 2
    /\ BadName \in SizeNames
    /\ BadArg # <<>>
    /\ ~IsNumeral(BadArg)
    /\ BadName \in DOMAIN call.pre.checkerMakers
    /\ call.pre.checkerMakers[BadName] = New.checkerMakers[BadName]
    /\ BadSeg \in DOMAIN call.pre.checkers =>
          call.pre.checkers[BadSeg] = Make(New.checkerMakers[BadName], BadArg).c

\* the strconv function that sizeCmp applies to the argument for a value
ParserOf(val) ==
    CASE val.kind = "Int"  -> "strconv.ParseInt"
      [] val.kind = "Uint" -> "strconv.ParseUint"
      [] OTHER             -> "strconv.Atoi"

(***************************************************************************)
(* C26.  A call under eq, ne, min or max with an argument that is no       *)
(* number never answers ErrInvalidChecker: the segment is bound and the    *)
(* checker of the maker is in the checker mapping under the segment text   *)
(* after the call.  Whenever the check runs on the value (the value is     *)
(* not zero, or the name is exempt from the skip), on the first call and   *)
(* on the later ones that find the cached checker, the answer is           *)
(* ErrCheckFailed under the maker name around the error of the strconv     *)
(* function for the kind of the value: ParseInt for a signed integer,      *)
(* ParseUint for an unsigned one, Atoi for the others.  When it is         *)
(* skipped the call succeeds.                                              *)
(***************************************************************************)
C26_BadArgumentAtCheck ==
    BadArgCall =>
        /\ call.err.kind # "ErrInvalidChecker"
        /\ BadSeg \in DOMAIN v.checkers
        /\ v.checkers[BadSeg] = Make(New.checkerMakers[BadName], BadArg).c
        /\ Len(call.log.bound) = 1
        /\ IF isZero(CallVisits[1].val) /\ ~IsExempt(call, BadName)
           THEN call.log.ran = <<>> /\ call.err = NoErr
           ELSE /\ Len(call.log.ran) = 1
                /\ call.err =
                      Scoped(CallVisits[1].scope,
                             CheckFailed(BadName,
                                 [kind |-> ParserOf(CallVisits[1].val),
                                  arg |-> BadArg]))

\* the second call on 0 under min:x: the checker cached by the first is
\* found, and the answer is the ParseInt error under min again
C26_Witness ==
    /\ BadArgCall
    /\ call.val = IntV(0)
    /\ call.tags = <<Arg("min", "x")>>
    /\ Arg("min", "x") \in DOMAIN call.pre.checkers
    /\ call.log.made = <<>>
    /\ call.err = CheckFailed(<<"min">>,
                              [kind |-> "strconv.ParseInt", arg |-> <<"x">>])

(***************************************************************************)
(* Non-exported fields.  Blanked(val) is val with the content of every     *)
(* non-exported field, at any depth below exported fields, replaced by a   *)
(* boolean; names, tags and exported fields are kept.                      *)
(***************************************************************************)
RECURSIVE Blanked(_)
Blanked(val) ==
    CASE val.kind = "Ptr" ->
            (IF val.nil THEN val ELSE [val EXCEPT !.elem = Blanked(val.elem)])
      [] val.kind = "Struct" ->
            [val EXCEPT !.fields =
                [i \in DOMAIN val.fields |->
                    IF val.fields[i].exported
                    THEN [val.fields[i] EXCEPT !.val = Blanked(val.fields[i].val)]
                    ELSE [val.fields[i] EXCEPT !.val = BoolV(FALSE)]]]
      [] OTHER -> val

C28_NoRollback ==
    (/\ call.op = "Validate"
     /\ Len(CallVisits) = 1
     /\ ~CallVisits[1].private
     /\ UnboundIn(CallVisits[1], call.pre) # {})
    => /\ call.err.kind = "ErrInvalidChecker"
       /\ \A h \in 1..(Min(UnboundIn(CallVisits[1], call.pre)) - 1) :
             /\ Segments(CallVisits[1].tag, call.pre.CheckSep)[h] \in DOMAIN v.checkers
             /\ Segments(CallVisits[1].tag, call.pre.CheckSep)[h]
                    \notin DOMAIN call.pre.checkers =>
                  v.checkers[Segments(CallVisits[1].tag, call.pre.CheckSep)[h]] =
                     Make(call.pre.checkerMakers[
                              Split(Segments(CallVisits[1].tag, call.pre.CheckSep)[h],
                                    call.pre.CheckArgSep)[1]],
                          Split(Segments(CallVisits[1].tag, call.pre.CheckSep)[h],
                                call.pre.CheckArgSep)[2]).c
       /\ Added(call, v) =
             {Segments(CallVisits[1].tag, call.pre.CheckSep)[h] :
                 h \in 1..(Min(UnboundIn(CallVisits[1], call.pre)) - 1)}
             \ DOMAIN call.pre.checkers

\* min:3,bogus:3 on a fresh mapping: the call answers ErrInvalidChecker
\* for bogus:3 and min:3 stays registered
C28_Witness ==
    /\ call.op = "Validate"
    /\ call.tags = <<Arg("min", "3"), Arg("bogus", "3")>>
    /\ call.pre.checkers = New.checkers
    /\ call.err = InvalidChecker(Arg("bogus", "3"), NoErr)
    /\ Added(call, v) = {Arg("min", "3")}
    /\ v.checkers[Arg("min", "3")] = SizeChecker(<<"3">>, expMore)

(***************************************************************************)
(* Locks held.  A goroutine holds the read lock only at read1 and read2:   *)
(* it has given it back when it calls a maker, when it asks for the write  *)
(* lock, while it waits for it and when it writes; between calls it        *)
(* holds no lock and waits for none.                                       *)
(***************************************************************************)
LockDiscipline ==
    \A t \in Threads :
        /\ thr[t].pc \in {"make", "lock", "wait", "write"} => t \notin mu.readers
        /\ thr[t].pc \in {"rlock1", "rlock2"} => t \notin mu.readers
        /\ thr[t].pc # "write" => mu.writer # t
        /\ thr[t].pc # "wait" => t \notin mu.waiting
        /\ thr[t].pc = "idle" =>
              t \notin mu.readers /\ mu.writer # t /\ t \notin mu.waiting

(***************************************************************************)
(* C29.  No call asks for the write lock, or calls a maker, while it       *)
(* holds the read lock, and a call that has returned holds no lock; and    *)
(* every call of Validate, RegisterChecker or RegisterCheckerMaker that    *)
(* a goroutine has started, among any calls of the other goroutines on     *)
(* the same Validator, returns in the end, when every goroutine that can   *)
(* take a step is scheduled.                                               *)
(***************************************************************************)
C29_AllReturn ==
    /\ []LockDiscipline
    /\ \A t \in Threads : (thr[t].pc # "idle") ~> (thr[t].pc = "idle")

\* all the calls allowed have returned: a Validate that cached min:3 on
\* one goroutine; a RegisterChecker, then a RegisterCheckerMaker on the
\* other
C29_Witness ==
    /\ nops = MaxCalls
    /\ \A t \in Threads : thr[t].pc = "idle"
    /\ mu = Unlocked
    /\ \E t, u \in Threads :
          /\ thr[t].op = "Validate" /\ thr[t].n = 1
          /\ thr[u].op = "RegisterCheckerMaker" /\ thr[u].n = 2
    /\ hist.materialized = {Arg("min", "3")}
    /\ registered # New.checkers

(***************************************************************************)
(* C30.  Once a call RegisterChecker(name, c) has returned, v.checkers     *)
(* holds c under name until the next call of RegisterChecker under that    *)
(* name returns: registered holds, under each name, the checker of the     *)
(* last RegisterChecker that has written and returned, and no write of     *)
(* parse changes what v.checkers holds under such a name.                  *)
(***************************************************************************)
C30_ExplicitKept ==
    \A x \in DOMAIN registered : v.checkers[x] = registered[x]

\* RegisterChecker(min:3, c) returned after a Validate had found no
\* checker under min:3 and before that call cached its own: all calls have
\* returned and v.checkers holds the checker of Min under min:3
C30_Replaced ==
    /\ \A t \in Threads : thr[t].pc = "idle"
    /\ \E t, u \in Threads :
          /\ thr[t].op = "Validate"
          /\ thr[t].tags = <<Arg("min", "3")>>
          /\ thr[t].n = 1
          /\ thr[u].op = "RegisterChecker"
          /\ thr[u].n = 1
    /\ registered[Arg("min", "3")] = Custom("pass")
    /\ v.checkers[Arg("min", "3")] = Fresh(Arg("min", "3"))
    /\ hist.materialized = {Arg("min", "3")}

=============================================================================
